---- MODULE Spec2Model ----
(***************************************************************************)
(* Drive & Putt: the per-frame simulation of hooks/useGameLoop, the        *)
(* collision helpers of utils/physics, the level provider and the host     *)
(* component App, as one state machine.                                    *)
(*                                                                         *)
(* Numbers.  The program computes in IEEE doubles.  Here every length,     *)
(* speed, angle and life value is a fixed-point integer with ONE units to  *)
(* the pixel (or to 1.0); a product or quotient is rounded toward zero to  *)
(* the next unit, which stands for the rounding of the double result.      *)
(* Math.sqrt is the integer square root.                                   *)
(*                                                                         *)
(* React.  gameState, strokes, levelIndex, currentLevel and                *)
(* showLevelSelect are the state cells of App, holding every update that   *)
(* has been queued.  rendered is the snapshot of those cells that the last *)
(* commit handed to GameCanvas: it is what the update closure, the effect  *)
(* dependency lists and the visible buttons see.  Render is the commit     *)
(* together with its passive effects.                                      *)
(*                                                                         *)
(* Input.  Steering and handbrake keys are never pressed in the runs       *)
(* explored, so the heading stays 0; throttle and brake are pressed and    *)
(* released by KeyDown and KeyUp while the car stands still.               *)
(***************************************************************************)
EXTENDS Integers, Sequences, FiniteSets, TLC

VARIABLES
    gameState,        \* App: useState<GameState>
    strokes,          \* App: useState(0)
    levelIndex,       \* App: useState(1)
    currentLevel,     \* App: useState(generateLevel(1)), held as the level id
    showLevelSelect,  \* App: useState(false)
    rendered,         \* props and state of the last commit
    timeRef,          \* useGameLoop: frame counter
    lastStrokeTime,   \* useGameLoop: Date.now() of the last counted hit
    car,              \* carRef.current
    ball,             \* ballRef.current
    spawnScale,       \* spawnScaleRef.current
    shake,            \* shakeRef.current
    effects,          \* effectsRef.current (floating texts)
    particles,        \* particlesRef.current
    tracks,           \* tracksRef.current
    effectIdCounter,  \* effectIdCounter.current
    keys,             \* keysPressed.current, the set of held actions
    now,              \* the value Date.now() returns
    frame,            \* what the last update did (its locals)
    fn                \* inputs and results of the last helper call

vars == <<gameState, strokes, levelIndex, currentLevel, showLevelSelect,
          rendered, timeRef, lastStrokeTime, car, ball, spawnScale, shake,
          effects, particles, tracks, effectIdCounter, keys, now,
          frame, fn>>

-----------------------------------------------------------------------------
(* Bounds of the exploration                                               *)

MaxFrames == 36
MaxMenuFrames == 1
MaxTicks == 3
StartTime == 1000

-----------------------------------------------------------------------------
(* Fixed-point arithmetic                                                  *)

ONE == 10 ^ 3

Abs(a) == IF a < 0 THEN -a ELSE a
Max(a, b) == IF a > b THEN a ELSE b
Min(a, b) == IF a < b THEN a ELSE b

\* quotient rounded toward zero, d > 0
TDiv(a, d) == IF a >= 0 THEN a \div d ELSE -((-a) \div d)

\* product of two fixed-point numbers
FMul(a, b) == TDiv(a * b, ONE)

\* quotient of two fixed-point numbers, b # 0
FDiv(a, b) == IF b > 0 THEN TDiv(a * ONE, b) ELSE -TDiv(a * ONE, -b)

RECURSIVE SqrtIter(_, _, _)
SqrtIter(n, lo, hi) ==
    IF lo >= hi THEN lo
    ELSE LET mid == (lo + hi + 1) \div 2
         IN IF mid * mid <= n THEN SqrtIter(n, mid, hi)
            ELSE SqrtIter(n, lo, mid - 1)

\* largest r with r * r <= n
ISqrt(n) == SqrtIter(n, 0, Min(n, 46340))

\* beyond FAR a length is only ever compared with radii and thresholds,
\* all of them below FAR; squares of such lengths are not formed
FAR == 30 * ONE

\* Math.sqrt(dx * dx + dy * dy)
Hypot(dx, dy) ==
    IF Abs(dx) >= FAR \/ Abs(dy) >= FAR THEN Max(Abs(dx), Abs(dy))
    ELSE ISqrt(dx * dx + dy * dy)

Vec(x, y) == [x |-> x, y |-> y]

-----------------------------------------------------------------------------
(* constants.ts                                                            *)

MENU == "MENU"
PLAYING == "PLAYING"
WON == "WON"
LOST == "LOST"
GameStates == {MENU, PLAYING, WON, LOST}

GRASS == "GRASS"
SAND == "SAND"
WATER == "WATER"

CANVAS_WIDTH == 1024
CANVAS_HEIGHT == 768

FRICTION_GROUND == 960
FRICTION_SAND == 850
CAR_ACCEL == 400
CAR_MAX_SPEED == 12000
CAR_TURN_SPEED == 70
CAR_BRAKE == 300
BALL_BOUNCE == 800
HANDBRAKE_TRACTION == 50
HANDBRAKE_TURN_MULT == 1800

SURFACE_PROPS ==
    [s \in {GRASS, SAND, WATER} |->
        CASE s = GRASS -> [drag |-> 40, traction |-> 150, accel |-> 1000]
          [] s = SAND  -> [drag |-> 150, traction |-> 40, accel |-> 500]
          [] s = WATER -> [drag |-> 300, traction |-> 20, accel |-> 200]]

CAR_WIDTH == 30000
CAR_HEIGHT == 18000
BALL_RADIUS == 10000
HOLE_RADIUS == 18000

-----------------------------------------------------------------------------
(* utils/physics.ts                                                        *)

getDistance(v1, v2) == Hypot(v1.x - v2.x, v1.y - v2.y)

dot(v1, v2) == FMul(v1.x, v2.x) + FMul(v1.y, v2.y)

\* the point of the rectangle closest to p
Closest(p, rect) ==
    Vec(Max(rect.x, Min(p.x, rect.x + rect.w)),
        Max(rect.y, Min(p.y, rect.y + rect.h)))

\* the comparison made non-strict
checkCircleRectCollisionLeq(circle, rect) ==
    LET c == Closest(circle.pos, rect)
        dx == circle.pos.x - c.x
        dy == circle.pos.y - c.y
    IN  /\ Abs(dx) < FAR
        /\ Abs(dy) < FAR
        /\ dx * dx + dy * dy <= circle.radius * circle.radius

checkCircleRectCollision(circle, rect) ==
    LET c == Closest(circle.pos, rect)
        dx == circle.pos.x - c.x
        dy == circle.pos.y - c.y
    IN  /\ Abs(dx) < FAR
        /\ Abs(dy) < FAR
        /\ dx * dx + dy * dy < circle.radius * circle.radius

OverlapHalf(radius, dist) == (radius - dist) \div 2

\* how far the circle is moved along the normal
Overlap(radius, dist) == radius - dist

ReflectUndamped(vel, dotProd, nx, ny) ==
    IF dotProd < 0
    THEN Vec(vel.x - FMul(2 * dotProd, nx), vel.y - FMul(2 * dotProd, ny))
    ELSE vel

\* the velocity after the bounce, dotProd being vel . (nx, ny)
Reflect(vel, dotProd, nx, ny) ==
    IF dotProd < 0
    THEN Vec(FMul(vel.x - FMul(2 * dotProd, nx), BALL_BOUNCE),
             FMul(vel.y - FMul(2 * dotProd, ny), BALL_BOUNCE))
    ELSE vel

\* the circle after resolution: position pushed out, velocity reflected
resolveCircleRectCollision(circle, rect) ==
    LET c == Closest(circle.pos, rect)
        dx == circle.pos.x - c.x
        dy == circle.pos.y - c.y
        dist == Hypot(dx, dy)
    IN  IF dist = 0 THEN circle
        ELSE LET nx == FDiv(dx, dist)
                 ny == FDiv(dy, dist)
                 overlap == Overlap(circle.radius, dist)
                 pos == Vec(circle.pos.x + FMul(nx, overlap),
                            circle.pos.y + FMul(ny, overlap))
                 dotProd == FMul(circle.vel.x, nx) + FMul(circle.vel.y, ny)
             IN [circle EXCEPT !.pos = pos,
                               !.vel = Reflect(circle.vel, dotProd, nx, ny)]

checkCircleCircleCollision(c1, c2) ==
    getDistance(c1.pos, c2.pos) < c1.radius + c2.radius

resolveCarBallCollisionAny(c, b) ==
    LET dist == getDistance(c.pos, b.pos)
    IN  IF dist = 0 THEN [car |-> c, ball |-> b, hit |-> FALSE]
        ELSE LET nx == FDiv(b.pos.x - c.pos.x, dist)
                 ny == FDiv(b.pos.y - c.pos.y, dist)
                 overlap == (c.radius + b.radius) - dist
                 transfer == FMul(dot(c.vel, Vec(nx, ny)) - dot(b.vel, Vec(nx, ny)), 1500)
             IN [car |-> [c EXCEPT !.speed = FMul(c.speed, 800),
                                   !.vel = Vec(FMul(c.vel.x, 800), FMul(c.vel.y, 800))],
                 ball |-> [b EXCEPT !.pos = Vec(b.pos.x + FMul(nx, overlap),
                                                b.pos.y + FMul(ny, overlap)),
                                    !.vel = Vec(b.vel.x + FMul(nx, transfer),
                                                b.vel.y + FMul(ny, transfer))],
                 hit |-> TRUE]

resolveCarBallCollisionBoth(c, b) ==
    LET dist == getDistance(c.pos, b.pos)
    IN  IF dist = 0 THEN [car |-> c, ball |-> b, hit |-> FALSE]
        ELSE LET nx == FDiv(b.pos.x - c.pos.x, dist)
                 ny == FDiv(b.pos.y - c.pos.y, dist)
                 half == ((c.radius + b.radius) - dist) \div 2
             IN [car |-> [c EXCEPT !.pos = Vec(c.pos.x - FMul(nx, half),
                                               c.pos.y - FMul(ny, half))],
                 ball |-> [b EXCEPT !.pos = Vec(b.pos.x + FMul(nx, half),
                                                b.pos.y + FMul(ny, half))],
                 hit |-> dot(c.vel, Vec(nx, ny)) > dot(b.vel, Vec(nx, ny))]

\* [car, ball, hit]: the two objects after resolution and the return value
resolveCarBallCollision(c, b) ==
    LET dist == getDistance(c.pos, b.pos)
    IN  IF dist = 0 THEN [car |-> c, ball |-> b, hit |-> FALSE]
        ELSE LET nx == FDiv(b.pos.x - c.pos.x, dist)
                 ny == FDiv(b.pos.y - c.pos.y, dist)
                 overlap == (c.radius + b.radius) - dist
                 pushed == [b EXCEPT !.pos = Vec(b.pos.x + FMul(nx, overlap),
                                                 b.pos.y + FMul(ny, overlap))]
                 carSpeedAlongNormal == dot(c.vel, Vec(nx, ny))
                 ballSpeedAlongNormal == dot(b.vel, Vec(nx, ny))
             IN IF carSpeedAlongNormal > ballSpeedAlongNormal
                THEN LET transfer == FMul(carSpeedAlongNormal - ballSpeedAlongNormal, 1500)
                     IN [car |-> [c EXCEPT !.speed = FMul(c.speed, 800),
                                           !.vel = Vec(FMul(c.vel.x, 800), FMul(c.vel.y, 800))],
                         ball |-> [pushed EXCEPT !.vel = Vec(b.vel.x + FMul(nx, transfer),
                                                             b.vel.y + FMul(ny, transfer))],
                         hit |-> TRUE]
                ELSE [car |-> c, ball |-> pushed, hit |-> FALSE]

-----------------------------------------------------------------------------
(* utils/levels-data.ts and utils/levels.ts                                *)

b(x, y, w, h) == [x |-> x * ONE, y |-> y * ONE, w |-> w * ONE, h |-> h * ONE]

BORDERS ==
    << b(0, 0, CANVAS_WIDTH, 20),
       b(0, CANVAS_HEIGHT - 20, CANVAS_WIDTH, 20),
       b(0, 0, 20, CANVAS_HEIGHT),
       b(CANVAS_WIDTH - 20, 0, 20, CANVAS_HEIGHT) >>

LEVEL_COUNT == 30

\* the catalog entries the exploration plays on
ModelLevels == {1, 27, 29, 30}

LEVELS ==
    [id \in 1..LEVEL_COUNT |->
        CASE id = 1 ->
               [id |-> 1, par |-> 4,
                startPos |-> Vec(100 * ONE, 100 * ONE), holePos |-> Vec(900 * ONE, 600 * ONE),
                walls |-> BORDERS \o << b(300, 0, 40, 400), b(300, 400, 400, 40) >>,
                sandTraps |-> << b(400, 500, 200, 100) >>,
                water |-> << >>]
          [] id = 2 ->
               [id |-> 2, par |-> 4,
                startPos |-> Vec(80 * ONE, 384 * ONE), holePos |-> Vec(950 * ONE, 384 * ONE),
                walls |-> BORDERS \o << b(0, 250, CANVAS_WIDTH, 40), b(0, 480, CANVAS_WIDTH, 40) >>,
                sandTraps |-> << b(700, 300, 150, 170) >>,
                water |-> << >>]
          [] id = 3 ->
               [id |-> 3, par |-> 5,
                startPos |-> Vec(100 * ONE, 100 * ONE), holePos |-> Vec(100 * ONE, 650 * ONE),
                walls |-> BORDERS \o << b(300, 0, 40, 550), b(600, 200, 40, 600) >>,
                sandTraps |-> << b(340, 450, 260, 100) >>,
                water |-> << >>]
          [] id = 4 ->
               [id |-> 4, par |-> 5,
                startPos |-> Vec(100 * ONE, 100 * ONE), holePos |-> Vec(900 * ONE, 650 * ONE),
                walls |-> BORDERS \o << b(300, 200, 400, 300) >>,
                sandTraps |-> << b(100, 400, 200, 100), b(700, 200, 100, 200) >>,
                water |-> << >>]
          [] id = 5 ->
               [id |-> 5, par |-> 5,
                startPos |-> Vec(100 * ONE, 384 * ONE), holePos |-> Vec(900 * ONE, 384 * ONE),
                walls |-> BORDERS,
                sandTraps |-> << b(300, 100, 100, 600), b(600, 100, 100, 600) >>,
                water |-> << >>]
          [] id = 6 ->
               [id |-> 6, par |-> 6,
                startPos |-> Vec(100 * ONE, 650 * ONE), holePos |-> Vec(900 * ONE, 100 * ONE),
                walls |-> BORDERS,
                sandTraps |-> << >>,
                water |-> << b(300, 0, 400, 400), b(0, 400, 400, 100) >>]
          [] id = 7 ->
               [id |-> 7, par |-> 6,
                startPos |-> Vec(100 * ONE, 100 * ONE), holePos |-> Vec(900 * ONE, 100 * ONE),
                walls |-> BORDERS \o << b(450, 0, 124, 250), b(450, 500, 124, 300),
                                        b(200, 350, 624, 40) >>,
                sandTraps |-> << b(100, 500, 200, 200) >>,
                water |-> << >>]
          [] id = 8 ->
               [id |-> 8, par |-> 5,
                startPos |-> Vec(100 * ONE, 50 * ONE), holePos |-> Vec(900 * ONE, 700 * ONE),
                walls |-> BORDERS \o << b(200, 0, 40, 500), b(500, 250, 40, 600), b(800, 0, 40, 500) >>,
                sandTraps |-> << b(240, 300, 260, 50), b(540, 400, 260, 50) >>,
                water |-> << >>]
          [] id = 9 ->
               [id |-> 9, par |-> 5,
                startPos |-> Vec(500 * ONE, 700 * ONE), holePos |-> Vec(500 * ONE, 100 * ONE),
                walls |-> BORDERS \o << b(0, 300, 400, 40), b(624, 300, 400, 40),
                                        b(400, 300, 40, 200), b(584, 300, 40, 200) >>,
                sandTraps |-> << b(440, 300, 144, 200) >>,
                water |-> << >>]
          [] id = 10 ->
               [id |-> 10, par |-> 5,
                startPos |-> Vec(100 * ONE, 384 * ONE), holePos |-> Vec(900 * ONE, 384 * ONE),
                walls |-> BORDERS \o << b(300, 200, 50, 50), b(500, 500, 50, 50),
                                        b(700, 200, 50, 50), b(400, 600, 50, 50) >>,
                sandTraps |-> << b(200, 100, 600, 50), b(200, 618, 600, 50) >>,
                water |-> << >>]
          [] id = 11 ->
               [id |-> 11, par |-> 6,
                startPos |-> Vec(100 * ONE, 384 * ONE), holePos |-> Vec(900 * ONE, 384 * ONE),
                walls |-> BORDERS \o << b(200, 360, 600, 48) >>,
                sandTraps |-> << b(200, 100, 600, 260) >>,
                water |-> << b(200, 408, 600, 260) >>]
          [] id = 12 ->
               [id |-> 12, par |-> 7,
                startPos |-> Vec(50 * ONE, 50 * ONE), holePos |-> Vec(512 * ONE, 384 * ONE),
                walls |-> BORDERS \o << b(150, 150, 724, 40), b(150, 150, 40, 550),
                                        b(150, 650, 600, 40), b(700, 300, 40, 390),
                                        b(300, 300, 440, 40) >>,
                sandTraps |-> << >>,
                water |-> << b(200, 200, 50, 400) >>]
          [] id = 13 ->
               [id |-> 13, par |-> 6,
                startPos |-> Vec(100 * ONE, 100 * ONE), holePos |-> Vec(900 * ONE, 650 * ONE),
                walls |-> BORDERS \o << b(300, 100, 40, 100), b(500, 100, 40, 100),
                                        b(700, 100, 40, 100), b(300, 300, 40, 100),
                                        b(500, 300, 40, 100), b(700, 300, 40, 100),
                                        b(300, 500, 40, 100), b(500, 500, 40, 100),
                                        b(700, 500, 40, 100) >>,
                sandTraps |-> << b(0, 200, CANVAS_WIDTH, 50), b(0, 450, CANVAS_WIDTH, 50) >>,
                water |-> << >>]
          [] id = 14 ->
               [id |-> 14, par |-> 6,
                startPos |-> Vec(100 * ONE, 384 * ONE), holePos |-> Vec(900 * ONE, 384 * ONE),
                walls |-> BORDERS,
                sandTraps |-> << >>,
                water |-> << b(300, 0, 424, 300), b(300, 468, 424, 300) >>]
          [] id = 15 ->
               [id |-> 15, par |-> 7,
                startPos |-> Vec(100 * ONE, 100 * ONE), holePos |-> Vec(900 * ONE, 650 * ONE),
                walls |-> BORDERS,
                sandTraps |-> << b(200, 0, 600, 600) >>,
                water |-> << >>]
          [] id = 16 ->
               [id |-> 16, par |-> 6,
                startPos |-> Vec(100 * ONE, 100 * ONE), holePos |-> Vec(900 * ONE, 100 * ONE),
                walls |-> BORDERS \o << b(200, 0, 40, 600), b(400, 168, 40, 600), b(600, 0, 40, 600),
                                        b(800, 168, 40, 600) >>,
                sandTraps |-> << >>,
                water |-> << >>]
          [] id = 17 ->
               [id |-> 17, par |-> 5,
                startPos |-> Vec(100 * ONE, 384 * ONE), holePos |-> Vec(512 * ONE, 384 * ONE),
                walls |-> BORDERS,
                sandTraps |-> << >>,
                water |-> << b(350, 0, 324, 768) >>]
          [] id = 18 ->
               [id |-> 18, par |-> 6,
                startPos |-> Vec(100 * ONE, 100 * ONE), holePos |-> Vec(950 * ONE, 700 * ONE),
                walls |-> BORDERS \o << b(800, 500, 224, 40), b(800, 500, 40, 268) >>,
                sandTraps |-> << b(600, 0, 100, 768) >>,
                water |-> << >>]
          [] id = 19 ->
               [id |-> 19, par |-> 6,
                startPos |-> Vec(50 * ONE, 384 * ONE), holePos |-> Vec(974 * ONE, 384 * ONE),
                walls |-> BORDERS \o << b(200, 0, 40, 300), b(200, 468, 40, 300), b(400, 0, 40, 300),
                                        b(400, 468, 40, 300), b(600, 0, 40, 300),
                                        b(600, 468, 40, 300), b(800, 0, 40, 300),
                                        b(800, 468, 40, 300) >>,
                sandTraps |-> << >>,
                water |-> << >>]
          [] id = 20 ->
               [id |-> 20, par |-> 8,
                startPos |-> Vec(100 * ONE, 100 * ONE), holePos |-> Vec(900 * ONE, 650 * ONE),
                walls |-> BORDERS,
                sandTraps |-> << >>,
                water |-> << b(250, 0, 100, 768), b(650, 0, 100, 768) >>]
          [] id = 21 ->
               [id |-> 21, par |-> 8,
                startPos |-> Vec(50 * ONE, 50 * ONE), holePos |-> Vec(950 * ONE, 700 * ONE),
                walls |-> BORDERS \o << b(0, 150, 800, 40), b(224, 300, 800, 40), b(0, 450, 800, 40),
                                        b(224, 600, 800, 40) >>,
                sandTraps |-> << >>,
                water |-> << >>]
          [] id = 22 ->
               [id |-> 22, par |-> 8,
                startPos |-> Vec(100 * ONE, 100 * ONE), holePos |-> Vec(900 * ONE, 650 * ONE),
                walls |-> BORDERS,
                sandTraps |-> << >>,
                water |-> << b(0, 0, 1024, 768), b(50, 50, 300, 300),
                            b(700, 500, 250, 200), b(400, 300, 200, 100) >>]
          [] id = 23 ->
               [id |-> 23, par |-> 7,
                startPos |-> Vec(100 * ONE, 100 * ONE), holePos |-> Vec(100 * ONE, 650 * ONE),
                walls |-> BORDERS \o << b(200, 150, 824, 468) >>,
                sandTraps |-> << >>,
                water |-> << >>]
          [] id = 24 ->
               [id |-> 24, par |-> 7,
                startPos |-> Vec(512 * ONE, 700 * ONE), holePos |-> Vec(512 * ONE, 100 * ONE),
                walls |-> BORDERS \o << b(300, 500, 100, 40), b(624, 500, 100, 40),
                                        b(200, 300, 40, 100), b(784, 300, 40, 100) >>,
                sandTraps |-> << b(400, 400, 224, 200) >>,
                water |-> << >>]
          [] id = 25 ->
               [id |-> 25, par |-> 6,
                startPos |-> Vec(100 * ONE, 100 * ONE), holePos |-> Vec(100 * ONE, 650 * ONE),
                walls |-> BORDERS \o << b(0, 200, 450, 368), b(574, 200, 450, 368) >>,
                sandTraps |-> << >>,
                water |-> << >>]
          [] id = 26 ->
               [id |-> 26, par |-> 8,
                startPos |-> Vec(50 * ONE, 384 * ONE), holePos |-> Vec(974 * ONE, 384 * ONE),
                walls |-> BORDERS,
                sandTraps |-> << b(200, 0, 100, 200), b(400, 200, 100, 200),
                                b(600, 0, 100, 200), b(800, 200, 100, 200) >>,
                water |-> << b(200, 400, 100, 200), b(400, 600, 100, 200) >>]
          [] id = 27 ->
               [id |-> 27, par |-> 10,
                startPos |-> Vec(50 * ONE, 384 * ONE), holePos |-> Vec(974 * ONE, 384 * ONE),
                walls |-> BORDERS,
                sandTraps |-> << >>,
                water |-> << b(150, 0, 100, 768), b(350, 0, 100, 768),
                            b(550, 0, 100, 768), b(750, 0, 100, 768) >>]
          [] id = 28 ->
               [id |-> 28, par |-> 9,
                startPos |-> Vec(50 * ONE, 50 * ONE), holePos |-> Vec(974 * ONE, 700 * ONE),
                walls |-> BORDERS \o << b(150, 0, 40, 600), b(300, 168, 40, 600), b(450, 0, 40, 600),
                                        b(600, 168, 40, 600), b(750, 0, 40, 600) >>,
                sandTraps |-> << >>,
                water |-> << >>]
          [] id = 29 ->
               [id |-> 29, par |-> 12,
                startPos |-> Vec(102 * ONE, 102 * ONE), holePos |-> Vec(200 * ONE, 102 * ONE),
                walls |-> BORDERS \o << b(200, 200, 624, 368) >>,
                sandTraps |-> << b(0, 0, 100, 100) >>,
                water |-> << >>]
          [] id = 30 ->
               [id |-> 30, par |-> 15,
                startPos |-> Vec(100 * ONE, 700 * ONE), holePos |-> Vec(900 * ONE, 100 * ONE),
                walls |-> BORDERS \o << b(200, 200, 40, 600), b(600, 0, 40, 600) >>,
                sandTraps |-> << b(300, 500, 200, 200) >>,
                water |-> << b(700, 200, 200, 200) >>]]

\* the ids of the catalog entries, in the order of the array
CatalogIds == [i \in 1..LEVEL_COUNT |-> i]

generateLevelClamped(idx) == Min(idx, LEVEL_COUNT)

\* the id of LEVELS[(levelIndex - 1) % LEVELS.length]; the catalog is sorted by id
generateLevel(idx) == ((idx - 1) % LEVEL_COUNT) + 1

-----------------------------------------------------------------------------
(* hooks/useGameLoop.ts: entities                                          *)

NewCar(level) ==
    [pos |-> level.startPos, vel |-> Vec(0, 0), angle |-> 0, speed |-> 0,
     width |-> CAR_WIDTH, height |-> CAR_HEIGHT, radius |-> CAR_WIDTH \div 2]

BallStart(level) == Vec(level.startPos.x + 60 * ONE, level.startPos.y)

NewBall(level) ==
    [pos |-> BallStart(level), vel |-> Vec(0, 0), radius |-> BALL_RADIUS, trail |-> << >>]

\* Math.cos, Math.sin and Math.atan2 at the arguments that occur
PI == 3142
Cos(a) == CASE a = 0 -> ONE
Sin(a) == CASE a = 0 -> 0
Atan2(y, x) == CASE y = 0 /\ x >= 0 -> 0
                 [] y = 0 /\ x < 0 -> PI

RECURSIVE Some(_, _, _)
\* rects.some(t => checkCircleRectCollision(circle, t))
Some(circle, rects, i) ==
    IF i > Len(rects) THEN FALSE
    ELSE checkCircleRectCollision(circle, rects[i]) \/ Some(circle, rects, i + 1)

\* n copies of x
Repeat(x, n) == [i \in 1..n |-> x]

-----------------------------------------------------------------------------
(* hooks/useGameLoop.ts: update, the PLAYING branch                        *)

SUBSTEPS == 8

\* the value every Math.random() call of a frame may return
RandomValues == {500}

\* surface under the car: sand wins over water, grass otherwise
CurrentSurface(c, level) ==
    IF Some(c, level.sandTraps, 1) THEN SAND
    ELSE IF Some(c, level.water, 1) THEN WATER
    ELSE GRASS

CoastNoSnap(speed, drag) == FMul(speed, ONE - drag)

\* car.speed *= (1 - drag); if (Math.abs(car.speed) < 0.05) car.speed = 0
Coast(speed, drag) ==
    LET d == FMul(speed, ONE - drag)
    IN  IF Abs(d) < 50 THEN 0 ELSE d

SpeedCapForward(speed, maxSpeed) == Min(speed, maxSpeed)

\* car.speed = Math.max(Math.min(car.speed, maxSpeed), -maxSpeed / 2)
SpeedCap(speed, maxSpeed) == Max(Min(speed, maxSpeed), -(maxSpeed \div 2))

\* turning, acceleration, speed cap and velocity vector of one frame
CarStep(c, k, level) ==
    LET surface == CurrentSurface(c, level)
        sp == SURFACE_PROPS[surface]
        throttle == "throttle" \in k
        brake == "brake" \in k
        left == "left" \in k
        right == "right" \in k
        isHandbrake == "handbrake" \in k
        turns == Abs(c.speed) > 100 \/ (Abs(c.speed) > 0 /\ isHandbrake)
        dir == IF c.speed > 0 THEN 1 ELSE -1
        ts0 == CAR_TURN_SPEED
        ts1 == IF isHandbrake THEN FMul(ts0, HANDBRAKE_TURN_MULT) ELSE ts0
        turnSpeed == IF surface = SAND THEN FMul(ts1, 600) ELSE ts1
        angle == c.angle - (IF turns /\ left THEN turnSpeed * dir ELSE 0)
                         + (IF turns /\ right THEN turnSpeed * dir ELSE 0)
        speed0 == IF throttle THEN c.speed + FMul(CAR_ACCEL, sp.accel)
                  ELSE IF brake THEN c.speed - CAR_BRAKE
                  ELSE Coast(c.speed, sp.drag)
        maxSpeed == IF surface = SAND THEN FMul(CAR_MAX_SPEED, 600) ELSE CAR_MAX_SPEED
        speed == SpeedCap(speed0, maxSpeed)
        forwardX == FMul(Cos(angle), speed)
        forwardY == FMul(Sin(angle), speed)
        traction == IF isHandbrake THEN HANDBRAKE_TRACTION ELSE sp.traction
        vel == Vec(c.vel.x + FMul(forwardX - c.vel.x, traction),
                   c.vel.y + FMul(forwardY - c.vel.y, traction))
    IN  [c EXCEPT !.angle = angle, !.speed = speed, !.vel = vel]

\* is the car drifting (c is the car after CarStep)
IsDrifting(c, k) ==
    LET velMag == Hypot(c.vel.x, c.vel.y)
        d0 == Atan2(c.vel.y, c.vel.x) - c.angle
        d1 == IF d0 > PI THEN d0 - 2 * PI ELSE d0
        driftDiff == IF d1 < -PI THEN d1 + 2 * PI ELSE d1
    IN  \/ Abs(driftDiff) > 350 /\ velMag > 3 * ONE
        \/ "handbrake" \in k /\ velMag > 2 * ONE

\* exhaust, smoke and dirt particles pushed by one frame; rnd is Math.random()
NewParticles(c, k, level, surface, rnd) ==
    LET drifting == IsDrifting(c, k)
        idle == IF Abs(c.speed) < ONE /\ rnd > 900
                THEN << [life |-> ONE, decay |-> 20, gravity |-> 0] >> ELSE << >>
        smoke == IF Abs(c.speed) > 500 /\ rnd > 800
                 THEN << [life |-> 600, decay |-> 50, gravity |-> 0] >> ELSE << >>
        dirt == IF (Abs(c.speed) > 3 * ONE \/ drifting) /\ rnd > 600
                THEN Repeat([life |-> 500, decay |-> 50, gravity |-> 0],
                            IF drifting \/ surface = SAND THEN 2 ELSE 1)
                ELSE << >>
    IN  idle \o smoke \o dirt

\* tire tracks pushed by one frame
NewTracks(c, k, surface) ==
    IF IsDrifting(c, k) /\ surface # WATER
    THEN << [life |-> ONE], [life |-> ONE] >> ELSE << >>

BallStepTimed(bl, level) ==
    LET f == IF now > StartTime THEN FRICTION_SAND ELSE FRICTION_GROUND
        vx == FMul(bl.vel.x, f)
        vy == FMul(bl.vel.y, f)
    IN  [bl EXCEPT !.vel = Vec(IF Abs(vx) < 50 THEN 0 ELSE vx,
                               IF Abs(vy) < 50 THEN 0 ELSE vy)]

\* ball friction and per-axis snap to zero
BallStep(bl, level) ==
    LET f == IF Some(bl, level.sandTraps, 1) THEN FRICTION_SAND ELSE FRICTION_GROUND
        vx == FMul(bl.vel.x, f)
        vy == FMul(bl.vel.y, f)
    IN  [bl EXCEPT !.vel = Vec(IF Abs(vx) < 50 THEN 0 ELSE vx,
                               IF Abs(vy) < 50 THEN 0 ELSE vy)]

RECURSIVE CarWalls(_, _, _)
\* for (const wall of allWalls) car against wall; st is [car, hitWall]
CarWalls(st, walls, i) ==
    IF i > Len(walls) THEN st
    ELSE IF checkCircleRectCollision(st.car, walls[i])
         THEN LET preSpeed == Hypot(st.car.vel.x, st.car.vel.y)
                  r == resolveCircleRectCollision(st.car, walls[i])
              IN CHOOSE res \in
                    { CarWalls(n, walls, i + 1) :
                        n \in {[car |-> [r EXCEPT !.speed = FMul(r.speed, 500)],
                                hitWall |-> st.hitWall \/ preSpeed > 4 * ONE]} } : TRUE
         ELSE CarWalls(st, walls, i + 1)

RECURSIVE BallWalls(_, _, _)
\* for (const wall of allWalls) ball against wall; st is [ball, hitWall]
BallWalls(st, walls, i) ==
    IF i > Len(walls) THEN st
    ELSE IF checkCircleRectCollision(st.ball, walls[i])
         THEN LET prev == st.ball.vel
                  r == resolveCircleRectCollision(st.ball, walls[i])
              IN CHOOSE res \in
                    { BallWalls(n, walls, i + 1) :
                        n \in {[ball |-> r,
                                hitWall |-> st.hitWall \/ Hypot(prev.x, prev.y) > 4 * ONE]} } : TRUE
         ELSE BallWalls(st, walls, i + 1)

SubStepWallsFirst(st, level) ==
    LET c1 == [st.car EXCEPT !.pos = Vec(st.car.pos.x + TDiv(st.car.vel.x, SUBSTEPS),
                                          st.car.pos.y + TDiv(st.car.vel.y, SUBSTEPS))]
        b1 == [st.ball EXCEPT !.pos = Vec(st.ball.pos.x + TDiv(st.ball.vel.x, SUBSTEPS),
                                           st.ball.pos.y + TDiv(st.ball.vel.y, SUBSTEPS))]
        cw == CarWalls([car |-> c1, hitWall |-> st.hitWall], level.walls, 1)
        bw == BallWalls([ball |-> b1, hitWall |-> cw.hitWall], level.walls, 1)
        cb == IF checkCircleCircleCollision(cw.car, bw.ball)
              THEN resolveCarBallCollision(cw.car, bw.ball)
              ELSE [car |-> cw.car, ball |-> bw.ball, hit |-> FALSE]
    IN  [car |-> cb.car, ball |-> cb.ball, hitBall |-> st.hitBall \/ cb.hit,
         touch |-> st.touch \/ checkCircleCircleCollision(cw.car, bw.ball),
         hitWall |-> bw.hitWall, splash |-> Some(cb.ball, level.water, 1),
         steps |-> st.steps + 1]

\* one sub-step: integration, car against ball, water, walls
SubStep(st, level) ==
    LET c1 == [st.car EXCEPT !.pos = Vec(st.car.pos.x + TDiv(st.car.vel.x, SUBSTEPS),
                                          st.car.pos.y + TDiv(st.car.vel.y, SUBSTEPS))]
        b1 == [st.ball EXCEPT !.pos = Vec(st.ball.pos.x + TDiv(st.ball.vel.x, SUBSTEPS),
                                           st.ball.pos.y + TDiv(st.ball.vel.y, SUBSTEPS))]
        cb == IF checkCircleCircleCollision(c1, b1)
              THEN resolveCarBallCollision(c1, b1)
              ELSE [car |-> c1, ball |-> b1, hit |-> FALSE]
        hitBall == st.hitBall \/ cb.hit
        touch == st.touch \/ checkCircleCircleCollision(c1, b1)
    IN  IF Some(cb.ball, level.water, 1)
        THEN [car |-> cb.car, ball |-> cb.ball, hitBall |-> hitBall, touch |-> touch,
              hitWall |-> st.hitWall, splash |-> TRUE, steps |-> st.steps + 1]
        ELSE LET cw == CarWalls([car |-> cb.car, hitWall |-> st.hitWall], level.walls, 1)
                 bw == BallWalls([ball |-> cb.ball, hitWall |-> cw.hitWall], level.walls, 1)
             IN [car |-> cw.car, ball |-> bw.ball, hitBall |-> hitBall, touch |-> touch,
                 hitWall |-> bw.hitWall, splash |-> FALSE, steps |-> st.steps + 1]

RECURSIVE SubStepsSeven(_, _, _)
SubStepsSeven(st, level, i) ==
    IF i >= SUBSTEPS - 1 \/ st.splash THEN st
    ELSE CHOOSE res \in { SubStepsSeven(n, level, i + 1) : n \in {SubStep(st, level)} } : TRUE

RECURSIVE SubSteps(_, _, _)
\* the sub-step loop from iteration i on, left at the first splash;
\* st is [car, ball, hitBall, touch, hitWall, splash, steps], touch telling
\* whether car and ball have overlapped in a sub-step
SubSteps(st, level, i) ==
    IF i >= SUBSTEPS \/ st.splash THEN st
    ELSE CHOOSE res \in { SubSteps(n, level, i + 1) : n \in {SubStep(st, level)} } : TRUE

TrailCleared(bl) ==
    IF Hypot(bl.vel.x, bl.vel.y) > ONE
    THEN LET t == Append(bl.trail, bl.pos)
         IN IF Len(t) > 15 THEN Tail(t) ELSE t
    ELSE << >>

TrailNoCap(bl) ==
    IF Hypot(bl.vel.x, bl.vel.y) > ONE THEN Append(bl.trail, bl.pos)
    ELSE IF Len(bl.trail) > 0 THEN Tail(bl.trail)
    ELSE bl.trail

\* the trail after the sub-steps
Trail(bl) ==
    LET ballSpeed == Hypot(bl.vel.x, bl.vel.y)
    IN  IF ballSpeed > ONE
        THEN LET t == Append(bl.trail, bl.pos)
             IN IF Len(t) > 15 THEN Tail(t) ELSE t
        ELSE IF Len(bl.trail) > 0 THEN Tail(bl.trail)
        ELSE bl.trail

DEBOUNCE_MS == 500

HitCountsInclusive(t, last) == t - last >= DEBOUNCE_MS

HitCountsNoDebounce(t, last) == t - last >= 0

\* does the hit of this frame count as a stroke
HitCounts(t, last) == t - last > DEBOUNCE_MS

\* the ball after a splash: behind the car, at rest, without trail
RespawnAtBall(c, bl) ==
    [bl EXCEPT !.pos = Vec(bl.pos.x - FMul(Cos(c.angle), 40 * ONE),
                           bl.pos.y - FMul(Sin(c.angle), 40 * ONE)),
               !.vel = Vec(0, 0),
               !.trail = << >>]

Respawn(c, bl) ==
    [bl EXCEPT !.pos = Vec(c.pos.x - FMul(Cos(c.angle), 40 * ONE),
                           c.pos.y - FMul(Sin(c.angle), 40 * ONE)),
               !.vel = Vec(0, 0),
               !.trail = << >>]

\* strokes added by the splash of a frame; ss is the outcome of the sub-step loop
SplashPenaltyPerStep(ss) == IF ss.splash THEN SUBSTEPS - ss.steps + 1 ELSE 0

SplashPenalty(ss) == IF ss.splash THEN 1 ELSE 0

StrokesCountedOnce(counted, ss) == IF counted \/ ss.splash THEN 1 ELSE 0

\* strokes a frame adds: one for a counted hit and one for a splash
StrokesCounted(counted, ss) == (IF counted THEN 1 ELSE 0) + SplashPenalty(ss)

HoleOutNoSpeed(bl, level) == getDistance(bl.pos, level.holePos) < HOLE_RADIUS

\* hole detection at the end of the frame
HoleOut(bl, level) ==
    /\ getDistance(bl.pos, level.holePos) < HOLE_RADIUS
    /\ Hypot(bl.vel.x, bl.vel.y) < 8 * ONE

-----------------------------------------------------------------------------
(* hooks/useGameLoop.ts: update, the common updates                        *)

AliveAtZero(e) == e.life >= 0

\* if (life <= 0) splice
Alive(e) == e.life > 0

\* floating texts: life -= 0.02, removed at life <= 0
DecayEffects(q) ==
    SelectSeq([i \in 1..Len(q) |-> [q[i] EXCEPT !.life = @ - 20]], Alive)

\* tire tracks: life -= 0.005, removed at life <= 0
DecayTracks(q) ==
    SelectSeq([i \in 1..Len(q) |-> [q[i] EXCEPT !.life = @ - 5]], Alive)

\* particles: life -= decay, removed at life <= 0
DecayParticles(q) ==
    SelectSeq([i \in 1..Len(q) |-> [q[i] EXCEPT !.life = @ - q[i].decay]], Alive)

\* spawn animation
SpawnStep(sc) == IF sc < ONE THEN Min(sc + 50, ONE) ELSE sc

\* screen shake decay
ShakeStep(sh) ==
    IF sh > 0
    THEN LET d == FMul(sh, 900) IN IF d < 500 THEN 0 ELSE d
    ELSE sh

NoFrame == [state |-> MENU, hitBall |-> FALSE, touch |-> FALSE,
            hitWall |-> FALSE, splash |-> FALSE,
            counted |-> FALSE, won |-> FALSE, steps |-> 0, gap |-> 0, last |-> 0,
            dStrokes |-> 0]

UpdateIdleSpawn ==
    /\ rendered.gameState \notin {PLAYING, WON}
    /\ timeRef < MaxMenuFrames
    /\ timeRef' = timeRef + 1
    /\ spawnScale' = SpawnStep(spawnScale)
    /\ frame' = [NoFrame EXCEPT !.state = rendered.gameState, !.last = lastStrokeTime]
    /\ UNCHANGED <<gameState, strokes, lastStrokeTime, car, ball, shake,
                   effects, particles, tracks, effectIdCounter>>

\* update run by a loop whose closure holds a state other than PLAYING and WON
UpdateIdle ==
    /\ rendered.gameState \notin {PLAYING, WON}
    /\ timeRef < MaxMenuFrames
    /\ timeRef' = timeRef + 1
    /\ frame' = [NoFrame EXCEPT !.state = rendered.gameState, !.last = lastStrokeTime]
    /\ UNCHANGED <<gameState, strokes, lastStrokeTime, car, ball, spawnScale, shake,
                   effects, particles, tracks, effectIdCounter>>

UpdateWonToMenu ==
    /\ rendered.gameState = WON
    /\ timeRef' = timeRef + 1
    /\ spawnScale' = SpawnStep(spawnScale)
    /\ shake' = ShakeStep(shake)
    /\ effects' = DecayEffects(effects)
    /\ tracks' = DecayTracks(tracks)
    /\ particles' = DecayParticles(particles)
    /\ gameState' = MENU
    /\ frame' = [NoFrame EXCEPT !.state = WON, !.last = lastStrokeTime]
    /\ UNCHANGED <<strokes, lastStrokeTime, car, ball, effectIdCounter>>

\* update run by a loop whose closure holds WON
UpdateWon ==
    /\ rendered.gameState = WON
    /\ timeRef' = timeRef + 1
    /\ spawnScale' = SpawnStep(spawnScale)
    /\ shake' = ShakeStep(shake)
    /\ effects' = DecayEffects(effects)
    /\ tracks' = DecayTracks(tracks)
    /\ particles' = DecayParticles(particles)
    /\ frame' = [NoFrame EXCEPT !.state = WON, !.last = lastStrokeTime]
    /\ UNCHANGED <<gameState, strokes, lastStrokeTime, car, ball, effectIdCounter>>

WallShakeSet(sh) == 2 * ONE

\* shakeRef.current = Math.max(shakeRef.current, 2)
WallShake(sh) == Max(sh, 2 * ONE)

\* the rest of update after the substep loop: trail, stroke, shake, splash,
\* hole and the common updates; c1 is the car before the loop, ss the loop's
\* outcome
FinishFrame(ss, c1, level, rnd) ==
    LET surface == CurrentSurface(car, level)
        b2 == [ss.ball EXCEPT !.trail = Trail(ss.ball)]
        counted == ss.hitBall /\ HitCounts(now, lastStrokeTime)
        sh1 == ShakeStep(shake)
        sh2 == IF ss.hitBall /\ Abs(ss.car.speed) > 5 * ONE THEN 5 * ONE ELSE sh1
        sh3 == IF ss.hitWall THEN WallShake(sh2) ELSE sh2
        b3 == IF ss.splash THEN Respawn(ss.car, b2) ELSE b2
        won == HoleOut(b3, level)
        hitText == IF counted
                   THEN << [text |-> "+1", life |-> ONE, id |-> effectIdCounter] >>
                   ELSE << >>
        id1 == effectIdCounter + Len(hitText)
        splashText == IF ss.splash
                      THEN << [text |-> "+1 (Water)", life |-> 1500, id |-> id1] >>
                      ELSE << >>
        hitBurst == IF counted
                    THEN Repeat([life |-> ONE, decay |-> 50, gravity |-> 0], 8)
                    ELSE << >>
    IN  [car |-> ss.car,
         ball |-> b3,
         lastStrokeTime |-> IF counted THEN now ELSE lastStrokeTime,
         strokesDelta |-> StrokesCounted(counted, ss),
         won |-> won,
         shake |-> IF won THEN 10 * ONE ELSE sh3,
         effectIdCounter |-> id1 + Len(splashText),
         effects |-> DecayEffects(effects \o hitText \o splashText),
         tracks |-> DecayTracks(tracks \o NewTracks(c1, keys, surface)),
         particles |-> DecayParticles(particles
                           \o NewParticles(c1, keys, level, surface, rnd) \o hitBurst),
         frame |-> [state |-> PLAYING, hitBall |-> ss.hitBall, touch |-> ss.touch,
                    hitWall |-> ss.hitWall,
                    splash |-> ss.splash, counted |-> counted, won |-> won,
                    steps |-> ss.steps,
                    gap |-> IF ss.hitBall THEN now - lastStrokeTime ELSE 0,
                    last |-> lastStrokeTime,
                    dStrokes |-> StrokesCounted(counted, ss)]]

\* update from the car physics on, c1 being the car after its velocity step
MoveAndCollide(c1, level, rnd) ==
    FinishFrame(SubSteps([car |-> c1, ball |-> BallStep(ball, level), hitBall |-> FALSE,
                          touch |-> FALSE, hitWall |-> FALSE, splash |-> FALSE,
                          steps |-> 0], level, 0),
                c1, level, rnd)

\* what update does to the simulation when its closure holds PLAYING:
\* the new values of the refs, the stroke increments and the WON request
PlayingUpdate(level, rnd) == MoveAndCollide(CarStep(car, keys, level), level, rnd)

\* update run by a loop whose closure holds PLAYING
UpdatePlaying ==
    /\ rendered.gameState = PLAYING
    /\ \E rnd \in RandomValues :
       \E u \in {PlayingUpdate(LEVELS[rendered.level], rnd)} :
            /\ timeRef' = timeRef + 1
            /\ spawnScale' = SpawnStep(spawnScale)
            /\ car' = u.car
            /\ ball' = u.ball
            /\ lastStrokeTime' = u.lastStrokeTime
            /\ strokes' = strokes + u.strokesDelta
            /\ gameState' = IF u.won THEN WON ELSE gameState
            /\ shake' = u.shake
            /\ effectIdCounter' = u.effectIdCounter
            /\ effects' = u.effects
            /\ tracks' = u.tracks
            /\ particles' = u.particles
            /\ frame' = u.frame

\* one animation frame: the loop calls the update of its closure (then draw)
Frame ==
    /\ timeRef < MaxFrames
    /\ (UpdateIdle \/ UpdateWon \/ UpdatePlaying)
    /\ UNCHANGED <<levelIndex, currentLevel, showLevelSelect, rendered, keys, now, fn>>

-----------------------------------------------------------------------------
(* hooks/useGameLoop.ts: resetGame and the effects; components/GameCanvas  *)

Cells == [gameState |-> gameState, strokes |-> strokes, levelIndex |-> levelIndex,
          level |-> currentLevel, show |-> showLevelSelect]

ResetClears(last) == 0

\* lastStrokeTime across a commit: no effect and no line of the hook's
\* resetGame assigns it
ResetKeeps(last) == last

MenuResetNever(changed) == FALSE

\* the effect with [gameState, resetGame]: if (gameState === MENU) resetGame()
MenuReset(changed) == changed /\ gameState = MENU

TeeResetNever(changed, level) == FALSE

\* the effect with [gameState, resetGame, strokes, level]: resetGame() in
\* PLAYING with no stroke and the ball more than 1 away from its tee
TeeReset(changed, level) ==
    /\ changed
    /\ gameState = PLAYING
    /\ strokes = 0
    /\ getDistance(ball.pos, BallStart(level)) > ONE

VictoryBurst(rnd) ==
    Repeat([life |-> ONE + rnd, decay |-> 10 + FMul(rnd, 10), gravity |-> 100], 100)

\* React commits the queued state and runs the passive effects: the MENU
\* reset, the reset of a hole started with the ball away from its tee, the
\* victory burst, and the loop effect that replaces the running loop by one
\* that calls the update of this commit
Commit ==
    /\ Cells # rendered
    /\ \E rnd \in RandomValues :
        LET level == LEVELS[currentLevel]
            gsChanged == gameState # rendered.gameState
            levelChanged == currentLevel # rendered.level
            strokesChanged == strokes # rendered.strokes
            menuReset == MenuReset(gsChanged \/ levelChanged)
            teeReset == TeeReset(gsChanged \/ levelChanged \/ strokesChanged, level)
            victory == (gsChanged \/ levelChanged) /\ gameState = WON
        IN  /\ rendered' = Cells
            /\ IF menuReset \/ teeReset
               THEN /\ car' = NewCar(level)
                    /\ ball' = NewBall(level)
                    /\ effects' = << >>
                    /\ particles' = << >>
                    /\ tracks' = << >>
                    /\ shake' = 0
                    /\ spawnScale' = 0
                    /\ strokes' = 0
               ELSE /\ particles' = IF victory THEN particles \o VictoryBurst(rnd)
                                    ELSE particles
                    /\ UNCHANGED <<car, ball, effects, tracks, shake, spawnScale, strokes>>
    /\ lastStrokeTime' = ResetKeeps(lastStrokeTime)
    /\ UNCHANGED <<gameState, levelIndex, currentLevel, showLevelSelect, timeRef,
                   effectIdCounter, keys, now, frame>>

Render == Commit /\ UNCHANGED fn

-----------------------------------------------------------------------------
(* App.tsx: the host actions, each behind the button the last commit shows *)

SimVars == <<timeRef, lastStrokeTime, car, ball, spawnScale, shake, effects,
             particles, tracks, effectIdCounter, frame>>
EnvVars == <<keys, now, fn>>

startGame ==
    /\ rendered.gameState = MENU /\ ~rendered.show
    /\ strokes' = 0
    /\ gameState' = PLAYING
    /\ UNCHANGED <<levelIndex, currentLevel, showLevelSelect, rendered>>
    /\ UNCHANGED SimVars /\ UNCHANGED EnvVars

openLevelSelect ==
    /\ rendered.gameState = MENU /\ ~rendered.show
    /\ showLevelSelect' = TRUE
    /\ UNCHANGED <<gameState, strokes, levelIndex, currentLevel, rendered>>
    /\ UNCHANGED SimVars /\ UNCHANGED EnvVars

backToMenu ==
    /\ rendered.gameState = MENU /\ rendered.show
    /\ showLevelSelect' = FALSE
    /\ UNCHANGED <<gameState, strokes, levelIndex, currentLevel, rendered>>
    /\ UNCHANGED SimVars /\ UNCHANGED EnvVars

\* the body of selectLevel(lvl)
SelectLevelBody(lvl) ==
    /\ levelIndex' = lvl
    /\ currentLevel' = generateLevel(lvl)
    /\ strokes' = 0
    /\ showLevelSelect' = FALSE
    /\ gameState' = PLAYING

\* the body of App's resetGame
ResetGameBody ==
    /\ strokes' = 0
    /\ gameState' = MENU
    /\ showLevelSelect' = FALSE
    /\ UNCHANGED <<levelIndex, currentLevel>>

selectLevel ==
    /\ rendered.gameState = MENU /\ rendered.show
    /\ \E lvl \in ModelLevels : SelectLevelBody(lvl)
    /\ UNCHANGED rendered
    /\ UNCHANGED SimVars /\ UNCHANGED EnvVars

HasNextHoleAlways(idx) == TRUE

\* nextLevel's test: the catalog has a hole after this one
HasNextHole(idx) == idx < LEVEL_COUNT

\* the body of nextLevel, with the levelIndex of its closure
NextLevelBody ==
    IF HasNextHole(rendered.levelIndex)
    THEN SelectLevelBody(rendered.levelIndex + 1)
    ELSE ResetGameBody

nextLevel ==
    /\ rendered.gameState = WON
    /\ HasNextHole(rendered.levelIndex)
         => generateLevel(rendered.levelIndex + 1) \in ModelLevels
    /\ NextLevelBody
    /\ UNCHANGED rendered
    /\ UNCHANGED SimVars /\ UNCHANGED EnvVars

resetGame ==
    /\ rendered.gameState = WON
    /\ ResetGameBody
    /\ UNCHANGED rendered
    /\ UNCHANGED SimVars /\ UNCHANGED EnvVars

-----------------------------------------------------------------------------
(* The environment: keyboard and clock                                     *)

Keys == {"throttle", "brake"}

AppVars == <<gameState, strokes, levelIndex, currentLevel, showLevelSelect, rendered>>

\* the player changes a key only while the car stands still
AtRest == car.speed = 0 /\ car.vel = Vec(0, 0)

\* a keydown event between two frames
KeyDown ==
    /\ AtRest
    /\ \E k \in Keys \ keys : keys' = keys \cup {k}
    /\ UNCHANGED <<now, fn>>
    /\ UNCHANGED AppVars /\ UNCHANGED SimVars

\* a keyup event between two frames
KeyUp ==
    /\ AtRest
    /\ \E k \in keys : keys' = keys \ {k}
    /\ UNCHANGED <<now, fn>>
    /\ UNCHANGED AppVars /\ UNCHANGED SimVars

\* the clock advances by half the debounce window
Tick ==
    /\ now < StartTime + MaxTicks * (DEBOUNCE_MS \div 2)
    /\ now' = now + DEBOUNCE_MS \div 2
    /\ UNCHANGED <<keys, fn>>
    /\ UNCHANGED AppVars /\ UNCHANGED SimVars

-----
(* The game                                                                *)

Init ==
    /\ gameState = MENU
    /\ strokes = 0
    /\ levelIndex = 1
    /\ currentLevel = generateLevel(1)
    /\ showLevelSelect = FALSE
    /\ rendered = [gameState |-> MENU, strokes |-> 0, levelIndex |-> 1,
                   level |-> generateLevel(1), show |-> FALSE]
    /\ timeRef = 0
    /\ lastStrokeTime = 0
    /\ car = NewCar(LEVELS[generateLevel(1)])
    /\ ball = NewBall(LEVELS[generateLevel(1)])
    /\ spawnScale = 0
    /\ shake = 0
    /\ effects = << >>
    /\ particles = << >>
    /\ tracks = << >>
    /\ effectIdCounter = 0
    /\ keys = {}
    /\ now = StartTime
    /\ frame = NoFrame
    /\ fn = [op |-> "none"]

Next ==
    \/ Frame
    \/ Render
    \/ startGame
    \/ openLevelSelect
    \/ backToMenu
    \/ selectLevel
    \/ nextLevel
    \/ resetGame
    \/ KeyDown
    \/ KeyUp
    \/ Tick

Spec == Init /\ [][Next]_vars

-----------------------------------------------------------------------------
(* A hole in play at the moment the car reaches the ball.  The car arrives *)
(* at the tee of level 29 with the throttle held, at a speed it has had    *)
(* the frames to build up; the ball rests on the tee.                      *)

ShotLevel == 29

ShotSpeeds == {4 * ONE, 6 * ONE, 8 * ONE}

\* frames of full throttle on grass that build up speed sp
RunUp(sp) == sp \div CAR_ACCEL

InitShot ==
    \E sp \in ShotSpeeds :
        /\ gameState = PLAYING
        /\ strokes = 0
        /\ levelIndex = ShotLevel
        /\ currentLevel = generateLevel(ShotLevel)
        /\ showLevelSelect = FALSE
        /\ rendered = [gameState |-> PLAYING, strokes |-> 0, levelIndex |-> ShotLevel,
                       level |-> generateLevel(ShotLevel), show |-> FALSE]
        /\ timeRef = RunUp(sp)
        /\ lastStrokeTime = 0
        /\ car = [NewCar(LEVELS[ShotLevel]) EXCEPT
                     !.pos = Vec(BallStart(LEVELS[ShotLevel]).x
                                    - (CAR_WIDTH \div 2 + BALL_RADIUS + ONE),
                                 BallStart(LEVELS[ShotLevel]).y),
                     !.speed = sp,
                     !.vel = Vec(sp, 0)]
        /\ ball = NewBall(LEVELS[ShotLevel])
        /\ spawnScale = ONE
        /\ shake = 0
        /\ effects = << >>
        /\ particles = << >>
        /\ tracks = << >>
        /\ effectIdCounter = 0
        /\ keys = {"throttle"}
        /\ now = StartTime
        /\ frame = NoFrame
        /\ fn = [op |-> "none"]

NextShot ==
    \/ Frame
    \/ Render
    \/ Tick

SpecShot == InitShot /\ [][NextShot]_vars

-----------------------------------------------------------------------------
(* The collision helpers of utils/physics.ts called on their own, with     *)
(* circles on a lattice around one rectangle                               *)

MaxCellX == 16
MaxCellY == 14

\* the lattice spacing: 5 pixels
FnGrid == 5 * ONE

FnRect == b(20, 20, 40, 30)

FnRadii == {BALL_RADIUS, CAR_WIDTH \div 2}

FnSpeeds == {-4 * ONE, 0, 3 * ONE}

FnCircles ==
    { [pos |-> Vec(i * FnGrid, j * FnGrid), vel |-> Vec(vx, vy), radius |-> r] :
        i \in 0..MaxCellX, j \in 0..MaxCellY, r \in FnRadii, vx \in FnSpeeds, vy \in FnSpeeds }

GameVars == <<gameState, strokes, levelIndex, currentLevel, showLevelSelect, rendered,
              timeRef, lastStrokeTime, car, ball, spawnScale, shake, effects, particles,
              tracks, effectIdCounter, keys, now, frame>>

\* a call of checkCircleRectCollision
CallCheck ==
    /\ fn.op = "none"
    /\ \E c \in FnCircles :
        /\ c.vel = Vec(0, 0)
        /\ fn' = [op |-> "check", circle |-> c, rect |-> FnRect,
                  result |-> checkCircleRectCollision(c, FnRect)]
    /\ UNCHANGED GameVars

\* a call of resolveCircleRectCollision, made as update makes it: on a circle
\* that checkCircleRectCollision reports as colliding
CallResolve ==
    /\ fn.op = "none"
    /\ \E c \in FnCircles :
        /\ checkCircleRectCollision(c, FnRect)
        /\ fn' = [op |-> "resolve", circle |-> c, rect |-> FnRect,
                  out |-> resolveCircleRectCollision(c, FnRect)]
    /\ UNCHANGED GameVars

\* the level indices generateLevel is called with: two rounds of the catalog
FnIndices == 1..(2 * LEVEL_COUNT)

\* a call of generateLevel
CallGenerate ==
    /\ fn.op = "none"
    /\ \E idx \in FnIndices :
        fn' = [op |-> "generate", idx |-> idx, out |-> generateLevel(idx)]
    /\ UNCHANGED GameVars

\* the car of the car-against-ball calls: at a lattice point, heading 0
FnCars ==
    { [NewCar(LEVELS[1]) EXCEPT !.pos = Vec(6 * FnGrid, 6 * FnGrid),
                                !.vel = Vec(vx, vy), !.speed = vx] :
        vx \in FnSpeeds, vy \in FnSpeeds }

FnBalls == { c \in FnCircles : c.radius = BALL_RADIUS }

\* a call of resolveCarBallCollision, made as update makes it: on a car and a
\* ball that checkCircleCircleCollision reports as overlapping
CallCarBall ==
    /\ fn.op = "none"
    /\ \E c \in FnCars, bl \in FnBalls :
        /\ checkCircleCircleCollision(c, bl)
        /\ fn' = [op |-> "carball", car |-> c, ball |-> bl,
                  out |-> resolveCarBallCollision(c, bl)]
    /\ UNCHANGED GameVars

\* one sub-step of update on its own, around the corner at (200, 200) of the
\* block of level 29: the ball at rest on the lattice clear of the walls, the car
\* overlapping it by up to 5 pixels, clear of the walls too
StepLevel == 29

StepOrigin == Vec(160 * ONE, 160 * ONE)

StepOffsets ==
    { Vec(i * FnGrid, j * FnGrid) : i \in -5..5, j \in -5..5 } \ { Vec(0, 0) }

StepBalls ==
    { [NewBall(LEVELS[StepLevel]) EXCEPT
          !.pos = Vec(StepOrigin.x + i * FnGrid, StepOrigin.y + j * FnGrid)] :
        i \in 0..MaxCellX, j \in 0..MaxCellY }

\* a call of the body of the sub-step loop
CallSubStep ==
    /\ fn.op = "none"
    /\ \E bl \in StepBalls, off \in StepOffsets, vx \in FnSpeeds, vy \in FnSpeeds :
        \E c \in {[NewCar(LEVELS[StepLevel]) EXCEPT
                       !.pos = Vec(bl.pos.x + off.x, bl.pos.y + off.y),
                       !.vel = Vec(vx, vy), !.speed = vx]} :
            /\ ~Some(bl, LEVELS[StepLevel].walls, 1)
            /\ ~Some(c, LEVELS[StepLevel].walls, 1)
            /\ getDistance(c.pos, bl.pos) >= c.radius + bl.radius - FnGrid
            /\ getDistance(c.pos, bl.pos) <= c.radius + bl.radius
            /\ fn' = [op |-> "substep", car |-> c, ball |-> bl,
                      out |-> SubStep([car |-> c, ball |-> bl, hitBall |-> FALSE,
                                       touch |-> FALSE, hitWall |-> FALSE,
                                       splash |-> FALSE, steps |-> 0],
                                      LEVELS[StepLevel])]
    /\ UNCHANGED GameVars

\* the car physics of one frame on its own, followed by each of the two
\* collisions that write car.speed: the car on the tee of a level (on grass
\* on level 1, on sand on level 29) at any speed of the grid, any keys held
CarStepLevels == {1, 29}

\* a tenth of a unit of speed
SpeedGrid == ONE \div 10

CarSpeeds == { i * SpeedGrid : i \in -(CAR_MAX_SPEED \div (2 * SpeedGrid))..(CAR_MAX_SPEED \div SpeedGrid) }

CallCarStep ==
    /\ fn.op = "none"
    /\ \E lvl \in CarStepLevels, sp \in CarSpeeds, k \in SUBSET {"throttle", "brake"} :
        \E c \in {[NewCar(LEVELS[lvl]) EXCEPT !.speed = sp, !.vel = Vec(sp, 0)]} :
        \E o \in {CarStep(c, k, LEVELS[lvl])} :
            fn' = [op |-> "carstep", level |-> lvl, car |-> c, keys |-> k, out |-> o,
                   hit |-> resolveCarBallCollision(o,
                              [NewBall(LEVELS[lvl]) EXCEPT
                                  !.pos = Vec(o.pos.x + 20 * ONE, o.pos.y)]).car,
                   wall |-> CarWalls([car |-> [o EXCEPT !.pos = Vec(30 * ONE, o.pos.y)],
                                      hitWall |-> FALSE], LEVELS[lvl].walls, 1).car]
    /\ UNCHANGED GameVars

NextFn ==
    \/ CallCarStep
    \/ CallCheck
    \/ CallResolve
    \/ CallGenerate
    \/ CallCarBall
    \/ CallSubStep

SpecFn == Init /\ [][NextFn]_vars

-----------------------------------------------------------------------------
(* Two runs of one hole.  The run of the variables above and a second run  *)
(* of the same update on the same level, from the same car and ball and    *)
(* with the same keys held, kept in fn; the clock ticks between the frames *)
(* of either, so the two runs play a frame at different Date.now values.   *)

TwinLevels == {27, 29}

\* car and ball after a PLAYING frame of update on car c and ball bl
PhysicsOnly(c, bl, k, level) ==
    LET ss == SubSteps([car |-> CarStep(c, k, level), ball |-> BallStep(bl, level),
                        hitBall |-> FALSE, touch |-> FALSE, hitWall |-> FALSE,
                        splash |-> FALSE, steps |-> 0], level, 0)
    IN  [car |-> ss.car,
         ball |-> IF ss.splash THEN Respawn(ss.car, ss.ball) ELSE ss.ball]

InitTwin ==
    \E sp \in ShotSpeeds, lvl \in TwinLevels :
        /\ gameState = PLAYING
        /\ strokes = 0
        /\ levelIndex = lvl
        /\ currentLevel = generateLevel(lvl)
        /\ showLevelSelect = FALSE
        /\ rendered = [gameState |-> PLAYING, strokes |-> 0, levelIndex |-> lvl,
                       level |-> generateLevel(lvl), show |-> FALSE]
        /\ timeRef = RunUp(sp)
        /\ lastStrokeTime = 0
        /\ car = [NewCar(LEVELS[lvl]) EXCEPT
                     !.pos = Vec(BallStart(LEVELS[lvl]).x
                                    - (CAR_WIDTH \div 2 + BALL_RADIUS + ONE),
                                 BallStart(LEVELS[lvl]).y),
                     !.speed = sp,
                     !.vel = Vec(sp, 0)]
        /\ ball = NewBall(LEVELS[lvl])
        /\ spawnScale = ONE
        /\ shake = 0
        /\ effects = << >>
        /\ particles = << >>
        /\ tracks = << >>
        /\ effectIdCounter = 0
        /\ keys = {"throttle"}
        /\ now = StartTime
        /\ frame = NoFrame
        /\ fn = [op |-> "twin", start |-> timeRef, n |-> 0, at |-> 0,
                 car |-> car, ball |-> ball]

\* one animation frame of the second run, which follows the first run
TwinFrame ==
    /\ fn.op = "twin"
    /\ fn.start + fn.n = timeRef - 1
    /\ rendered.gameState = PLAYING
    /\ \E t \in {PhysicsOnly(fn.car, fn.ball, keys, LEVELS[rendered.level])} :
        fn' = [fn EXCEPT !.n = @ + 1, !.at = now, !.car = t.car,
                         !.ball = [t.ball EXCEPT !.trail = << >>]]
    /\ UNCHANGED GameVars

NextTwin ==
    \/ Frame
    \/ TwinFrame
    \/ Render
    \/ Tick

SpecTwin == InitTwin /\ [][NextTwin]_vars

-----------------------------------------------------------------------------
(* A long drive.  Hole 1 just started, the car on the tee with the         *)
(* throttle held down: the car drives the ball into the wall ahead and     *)
(* keeps pushing, until the player reverses.  The clock stands still.      *)

MaxDriveFrames == 200

DriveLevel == 1

InitDrive ==
    /\ gameState = PLAYING
    /\ strokes = 0
    /\ levelIndex = DriveLevel
    /\ currentLevel = generateLevel(DriveLevel)
    /\ showLevelSelect = FALSE
    /\ rendered = [gameState |-> PLAYING, strokes |-> 0, levelIndex |-> DriveLevel,
                   level |-> generateLevel(DriveLevel), show |-> FALSE]
    /\ timeRef = 0
    /\ lastStrokeTime = 0
    /\ car = NewCar(LEVELS[DriveLevel])
    /\ ball = NewBall(LEVELS[DriveLevel])
    /\ spawnScale = 0
    /\ shake = 0
    /\ effects = << >>
    /\ particles = << >>
    /\ tracks = << >>
    /\ effectIdCounter = 0
    /\ keys = {"throttle"}
    /\ now = StartTime
    /\ frame = NoFrame
    /\ fn = [op |-> "none"]

\* one animation frame of the drive, which ends when the car backs away
DriveFrame ==
    /\ timeRef < MaxDriveFrames
    /\ car.speed > -ONE
    /\ UpdatePlaying
    /\ UNCHANGED <<levelIndex, currentLevel, showLevelSelect, rendered, keys, now, fn>>

\* the player lets go of the throttle and brakes, with the car against the ball
Reverse ==
    /\ keys = {"throttle"}
    /\ checkCircleCircleCollision(car, ball)
    /\ keys' = {"brake"}
    /\ UNCHANGED <<now, fn>>
    /\ UNCHANGED AppVars /\ UNCHANGED SimVars

NextDrive ==
    \/ DriveFrame
    \/ Reverse
    \/ Render

SpecDrive == InitDrive /\ [][NextDrive]_vars

-----------------------------------------------------------------------------
(* A car let roll.  No key is held; the car is out on a hole with the ball *)
(* left on its tee: on level 27 on the grass between two strips of water,  *)
(* on level 30 on the grass on either side of the sand, rolling forward or *)
(* backward at a speed the cap allows.  The animation loop keeps running.  *)

MaxCoastFrames == 200

CoastStarts ==
    { [level |-> 27, pos |-> Vec(300 * ONE, 384 * ONE), dir |-> 1],
      [level |-> 27, pos |-> Vec(500 * ONE, 384 * ONE), dir |-> -1],
      [level |-> 30, pos |-> Vec(270 * ONE, 600 * ONE), dir |-> 1],
      [level |-> 30, pos |-> Vec(530 * ONE, 600 * ONE), dir |-> -1] }

CoastSpeeds == {60, ONE, 6 * ONE, 12 * ONE}

InitCoast ==
    /\ gameState = PLAYING
    /\ strokes = 0
    /\ showLevelSelect = FALSE
    /\ timeRef = 0
    /\ lastStrokeTime = 0
    /\ spawnScale = 0
    /\ shake = 0
    /\ effects = << >>
    /\ particles = << >>
    /\ tracks = << >>
    /\ effectIdCounter = 0
    /\ keys = {}
    /\ now = StartTime
    /\ frame = NoFrame
    /\ fn = [op |-> "none"]
    /\ \E st \in CoastStarts, m \in CoastSpeeds :
        /\ st.dir * m >= -(CAR_MAX_SPEED \div 2)
        /\ levelIndex = st.level
        /\ currentLevel = generateLevel(st.level)
        /\ rendered = [gameState |-> PLAYING, strokes |-> 0, levelIndex |-> st.level,
                       level |-> generateLevel(st.level), show |-> FALSE]
        /\ car = [NewCar(LEVELS[st.level]) EXCEPT
                     !.pos = st.pos, !.speed = st.dir * m, !.vel = Vec(st.dir * m, 0)]
        /\ ball = NewBall(LEVELS[st.level])

\* one animation frame with no key held
CoastFrame ==
    /\ timeRef < MaxCoastFrames
    /\ UpdatePlaying
    /\ UNCHANGED <<levelIndex, currentLevel, showLevelSelect, rendered, keys, now, fn>>

NextCoast == CoastFrame

\* the step of the frame counter that every CoastFrame takes, and no other
\* step of NextCoast
FrameDue == timeRef < MaxCoastFrames /\ timeRef' = timeRef + 1

\* requestAnimationFrame keeps calling the loop: a frame that is due is run
SpecCoast == InitCoast /\ [][NextCoast]_vars /\ WF_timeRef(FrameDue)

-----------------------------------------------------------------------------
(* The queues running down.  A frame ago the car, reversing, hit the ball  *)
(* into the water or into the hole: a "+1", a "+1 (Water)", the burst of   *)
(* the hit and two tire tracks are queued, and on a hole-out the victory   *)
(* burst as well.  The car stands, no key is held, the loop keeps running. *)

MaxDecayFrames == 210

DecayLevel == 27

InitDecay ==
    /\ strokes = 2
    /\ levelIndex = DecayLevel
    /\ currentLevel = generateLevel(DecayLevel)
    /\ showLevelSelect = FALSE
    /\ timeRef = 0
    /\ lastStrokeTime = StartTime
    /\ car = NewCar(LEVELS[DecayLevel])
    /\ ball = NewBall(LEVELS[DecayLevel])
    /\ spawnScale = ONE
    /\ shake = 0
    /\ effects = << [text |-> "+1", life |-> ONE - 20, id |-> 0],
                    [text |-> "+1 (Water)", life |-> 1500 - 20, id |-> 1] >>
    /\ tracks = Repeat([life |-> ONE - 5], 2)
    /\ effectIdCounter = 2
    /\ keys = {}
    /\ now = StartTime
    /\ frame = NoFrame
    /\ fn = [op |-> "none"]
    /\ \E gs \in {PLAYING, WON}, rnd \in RandomValues :
        /\ gameState = gs
        /\ rendered = [gameState |-> gs, strokes |-> 2, levelIndex |-> DecayLevel,
                       level |-> generateLevel(DecayLevel), show |-> FALSE]
        /\ particles = Repeat([life |-> ONE - 50, decay |-> 50, gravity |-> 0], 8)
                          \o (IF gs = WON THEN VictoryBurst(rnd) ELSE << >>)

\* one animation frame of a hole in play
PlayingDecay ==
    /\ timeRef < MaxDecayFrames
    /\ UpdatePlaying
    /\ UNCHANGED <<levelIndex, currentLevel, showLevelSelect, rendered, keys, now, fn>>

\* one animation frame after the hole-out
WonDecay ==
    /\ timeRef < MaxDecayFrames
    /\ UpdateWon
    /\ UNCHANGED <<levelIndex, currentLevel, showLevelSelect, rendered, keys, now, fn>>

NextDecay ==
    \/ PlayingDecay
    \/ WonDecay

\* the step of the frame counter that every frame takes
DecayDue == timeRef < MaxDecayFrames /\ timeRef' = timeRef + 1

\* requestAnimationFrame keeps calling the loop: a frame that is due is run
SpecDecay == InitDecay /\ [][NextDecay]_vars /\ WF_timeRef(DecayDue)

-----------------------------------------------------------------------------
(* The animation loop of GameCanvas.  fn holds the bookkeeping of the host: *)
(* the callbacks requestAnimationFrame has queued (each the loop of one run *)
(* of the loop effect, gen, with the game state of its closure, gs),       *)
(* requestRef.current, the callbacks of the tick being served, and counts  *)
(* of ticks and draws.  The player presses START ENGINE at some tick and   *)
(* lets go of the keys; commits and clicks are tasks of their own and run  *)
(* between two ticks.                                                      *)

MaxLoopTicks == 40

CancelNothing(pending, id) == pending

\* cancelAnimationFrame(id)
Cancel(pending, id) == { c \in pending : c.id # id }

InitLoop ==
    /\ gameState = MENU
    /\ strokes = 0
    /\ levelIndex = 1
    /\ currentLevel = generateLevel(1)
    /\ showLevelSelect = FALSE
    /\ rendered = [gameState |-> MENU, strokes |-> 0, levelIndex |-> 1,
                   level |-> generateLevel(1), show |-> FALSE]
    /\ timeRef = 0
    /\ lastStrokeTime = 0
    /\ car = NewCar(LEVELS[generateLevel(1)])
    /\ ball = NewBall(LEVELS[generateLevel(1)])
    /\ spawnScale = 0
    /\ shake = 0
    /\ effects = << >>
    /\ particles = << >>
    /\ tracks = << >>
    /\ effectIdCounter = 0
    /\ keys = {}
    /\ now = StartTime
    /\ frame = NoFrame
    /\ fn = [op |-> "loop", gen |-> 0, requestRef |-> 1, nextId |-> 2,
             pending |-> {[id |-> 1, gen |-> 0, gs |-> MENU]},
             due |-> {}, ticks |-> 0, draws |-> 0]

\* the host starts an animation tick: the callbacks queued so far are the
\* ones it will run
BeginTick ==
    /\ fn.op = "loop" /\ fn.due = {} /\ fn.pending # {}
    /\ fn.ticks < MaxLoopTicks
    /\ fn' = [fn EXCEPT !.due = fn.pending, !.pending = {}, !.ticks = @ + 1]
    /\ UNCHANGED GameVars

\* the host runs one of them: loop calls update, draw, and queues itself
RunLoop ==
    /\ fn.op = "loop"
    /\ \E c \in fn.due :
        /\ IF c.gs = PLAYING /\ rendered.gameState = PLAYING THEN UpdatePlaying
           ELSE /\ timeRef' = timeRef + 1
                /\ frame' = [NoFrame EXCEPT !.state = c.gs, !.last = lastStrokeTime]
                /\ UNCHANGED <<gameState, strokes, lastStrokeTime, car, ball, spawnScale,
                               shake, effects, particles, tracks, effectIdCounter>>
        /\ fn' = [fn EXCEPT !.due = @ \ {c},
                            !.draws = @ + 1,
                            !.requestRef = fn.nextId,
                            !.nextId = @ + 1,
                            !.pending = @ \cup {[id |-> fn.nextId, gen |-> c.gen,
                                                 gs |-> c.gs]}]
    /\ UNCHANGED <<levelIndex, currentLevel, showLevelSelect, rendered, keys, now>>

\* START ENGINE, between two ticks
LoopStart ==
    /\ fn.op = "loop" /\ fn.due = {}
    /\ startGame

\* the commit, between two ticks: update and draw are new, so the cleanup of
\* the loop effect cancels requestRef.current and the effect queues the loop
\* of the new closures
LoopCommit ==
    /\ fn.op = "loop" /\ fn.due = {}
    /\ Commit
    /\ fn' = [fn EXCEPT !.gen = @ + 1,
                        !.requestRef = fn.nextId,
                        !.nextId = @ + 1,
                        !.pending = Cancel(fn.pending, fn.requestRef)
                                       \cup {[id |-> fn.nextId, gen |-> fn.gen + 1,
                                              gs |-> gameState]}]

NextLoop ==
    \/ BeginTick
    \/ RunLoop
    \/ LoopStart
    \/ LoopCommit

SpecLoop == InitLoop /\ [][NextLoop]_vars

-----------------------------------------------------------------------------
(* The host alone.  The buttons of App over the whole catalog, the commits *)
(* with their effects, and of the frames of a hole only what App sees of   *)
(* them: the strokes they count and the win.  The car and the ball move    *)
(* only when an effect puts them on a tee.                                 *)

MaxHostStrokes == 2

InitHost == Init

\* a frame of update counts a stroke through setStrokes(s => s + 1)
CountStroke ==
    /\ rendered.gameState = PLAYING
    /\ strokes < MaxHostStrokes
    /\ strokes' = strokes + 1
    /\ UNCHANGED <<gameState, levelIndex, currentLevel, showLevelSelect, rendered>>
    /\ UNCHANGED SimVars /\ UNCHANGED EnvVars

\* a frame of update finds the ball in the hole: setGameState(WON)
HoleOutSeen ==
    /\ rendered.gameState = PLAYING
    /\ gameState' = WON
    /\ UNCHANGED <<strokes, levelIndex, currentLevel, showLevelSelect, rendered>>
    /\ UNCHANGED SimVars /\ UNCHANGED EnvVars

\* a button of the level select overlay: selectLevel(i + 1), i in 0..29
pickLevel ==
    /\ rendered.gameState = MENU /\ rendered.show
    /\ \E i \in 0..(LEVEL_COUNT - 1) : SelectLevelBody(i + 1)
    /\ UNCHANGED rendered
    /\ UNCHANGED SimVars /\ UNCHANGED EnvVars

\* NEXT HOLE on any hole of the catalog
nextHole ==
    /\ rendered.gameState = WON
    /\ NextLevelBody
    /\ UNCHANGED rendered
    /\ UNCHANGED SimVars /\ UNCHANGED EnvVars

NextHost ==
    \/ Render
    \/ startGame
    \/ openLevelSelect
    \/ backToMenu
    \/ pickLevel
    \/ nextHole
    \/ resetGame
    \/ CountStroke
    \/ HoleOutSeen

SpecHost == InitHost /\ [][NextHost]_vars

-----------------------------------------------------------------------------
(* The game, also entered in the middle of hole 27.  One stroke has been   *)
(* counted, the ball has come to rest on the grass just short of the first *)
(* strip of water, and the car comes up behind it with the throttle held,  *)
(* inside or outside the window of the counted hit.                        *)

WaterFrames == 4

WaterLevel == 27

ByTheWater ==
    /\ gameState = PLAYING
    /\ strokes = 1
    /\ levelIndex = WaterLevel
    /\ currentLevel = generateLevel(WaterLevel)
    /\ showLevelSelect = FALSE
    /\ rendered = [gameState |-> PLAYING, strokes |-> 1, levelIndex |-> WaterLevel,
                   level |-> generateLevel(WaterLevel), show |-> FALSE]
    /\ timeRef = MaxFrames - WaterFrames
    /\ lastStrokeTime = StartTime
    /\ spawnScale = ONE
    /\ shake = 0
    /\ effects = << >>
    /\ particles = << >>
    /\ tracks = << >>
    /\ effectIdCounter = 1
    /\ keys = {"throttle"}
    /\ now \in {StartTime + DEBOUNCE_MS \div 2, StartTime + DEBOUNCE_MS + DEBOUNCE_MS \div 2}
    /\ frame = NoFrame
    /\ fn = [op |-> "none"]
    /\ \E bx \in {130, 135, 139}, gap \in {1, 5}, v \in {2, 6} :
        LET level == LEVELS[WaterLevel]
            y == level.startPos.y
        IN  /\ ball = [NewBall(level) EXCEPT !.pos = Vec(bx * ONE, y)]
            /\ car = [NewCar(level) EXCEPT
                         !.pos = Vec(bx * ONE - (CAR_WIDTH \div 2 + BALL_RADIUS) - gap * ONE, y),
                         !.speed = v * ONE, !.vel = Vec(v * ONE, 0)]

InitStroke == Init \/ ByTheWater

SpecStroke == InitStroke /\ [][Next]_vars

-----------------------------------------------------------------------------
(* The game taken up at the hole-out of hole 29.  The car hit the ball off *)
(* the tee four frames ago, the hit was counted, and the frame just run    *)
(* found the ball in the hole; the commit of WON is still to come and the  *)
(* throttle is still held.  The player goes on from there.                 *)

CarryFrames == 20

CarryLevel == 29

JustWon ==
    /\ gameState = WON
    /\ strokes = 1
    /\ levelIndex = CarryLevel
    /\ currentLevel = generateLevel(CarryLevel)
    /\ showLevelSelect = FALSE
    /\ rendered = [gameState |-> PLAYING, strokes |-> 0, levelIndex |-> CarryLevel,
                   level |-> generateLevel(CarryLevel), show |-> FALSE]
    /\ timeRef = MaxFrames - CarryFrames
    /\ lastStrokeTime = StartTime
    /\ car = [NewCar(LEVELS[CarryLevel]) EXCEPT
                 !.pos = Vec(152131, 102 * ONE), !.speed = 6960, !.vel = Vec(4877, 0)]
    /\ ball = [NewBall(LEVELS[CarryLevel]) EXCEPT
                  !.pos = Vec(184520, 102 * ONE), !.vel = Vec(6294, 0),
                  !.trail = << Vec(164856, 102 * ONE), Vec(171680, 102 * ONE),
                               Vec(178232, 102 * ONE), Vec(184520, 102 * ONE) >>]
    /\ spawnScale = ONE
    /\ shake = 10 * ONE
    /\ effects = << [id |-> 0, life |-> 920, text |-> "+1"] >>
    /\ particles = Repeat([life |-> 800, decay |-> 50, gravity |-> 0], 8)
    /\ tracks = << >>
    /\ effectIdCounter = 1
    /\ keys = {"throttle"}
    /\ now = StartTime
    /\ frame = [NoFrame EXCEPT !.state = PLAYING, !.won = TRUE, !.steps = SUBSTEPS,
                               !.last = StartTime]
    /\ fn = [op |-> "none"]

SpecCarry == JustWon /\ [][Next]_vars

-----------------------------------------------------------------------------
(* Properties                                                              *)

\* a step that is one animation frame
IsFrame == timeRef' # timeRef

\* C1: a car-ball hit less than 500 ms after the last counted hit adds no
\* stroke and leaves the debounce timestamp alone, in every PLAYING frame
C1_Debounce ==
    frame.state = PLAYING /\ frame.hitBall /\ frame.gap < DEBOUNCE_MS
        => /\ ~frame.counted
           /\ frame.dStrokes = (IF frame.splash THEN 1 ELSE 0)
           /\ lastStrokeTime = frame.last

\* a hit inside the window of an earlier counted hit, 250 ms after it
C1_Witness ==
    /\ frame.hitBall /\ ~frame.counted
    /\ frame.gap > 0 /\ frame.gap < DEBOUNCE_MS
    /\ strokes = 1

\* C2: a PLAYING frame with a splash adds exactly one stroke for it, whatever
\* the debounce window says, and the splash does not touch the timestamp
C2_Splash ==
    frame.splash
        => /\ frame.dStrokes = 1 + (IF frame.counted THEN 1 ELSE 0)
           /\ ~frame.counted => lastStrokeTime = frame.last

\* a splash in an early sub-step, inside the window of the hit that caused it
C2_Witness ==
    /\ frame.splash /\ frame.steps < SUBSTEPS
    /\ strokes = 2
    /\ lastStrokeTime > 0 /\ now - lastStrokeTime < DEBOUNCE_MS

\* is the ball in the hole circle of level lvl, and is it slow
InHoleCircle(bl, lvl) == getDistance(bl.pos, LEVELS[lvl].holePos) < HOLE_RADIUS
Slow(bl) == Hypot(bl.vel.x, bl.vel.y) < 8 * ONE

\* C3: a PLAYING frame requests WON exactly when the ball it leaves behind
\* is inside the hole circle and slower than 8; otherwise the state is kept
C3_HoleOut ==
    [][IsFrame /\ rendered.gameState = PLAYING
        => /\ frame'.won <=> (InHoleCircle(ball', rendered.level) /\ Slow(ball'))
           /\ gameState' = (IF frame'.won THEN WON ELSE gameState)]_vars

\* a frame left the ball inside the hole circle at speed 8 or more: no WON
C3_Witness ==
    /\ frame.state = PLAYING /\ ~frame.won /\ gameState = PLAYING
    /\ InHoleCircle(ball, rendered.level) /\ ~Slow(ball)

\* C4: an update writes the game state only as WON and only when it ran with
\* PLAYING; the commit's effects never write it; MENU and PLAYING are entered
\* only by startGame, selectLevel, nextLevel and resetGame
C4_Writes ==
    [][/\ IsFrame => /\ frame'.won => rendered.gameState = PLAYING
                     /\ gameState' = (IF frame'.won THEN WON ELSE gameState)
       /\ gameState' # gameState /\ gameState' # WON
            => /\ gameState' \in {MENU, PLAYING}
               /\ startGame \/ selectLevel \/ nextLevel \/ resetGame]_vars

\* WON has been requested by a PLAYING update and not yet committed
C4_Witness ==
    /\ frame.won /\ frame.state = PLAYING
    /\ gameState = WON /\ rendered.gameState = PLAYING

\* C5 as stated: once the state cell holds WON no update requests WON again
\* and no physics frame runs
C5_Once ==
    [][IsFrame /\ gameState = WON => ~frame'.won /\ frame'.state # PLAYING]_vars

\* C6: an update that ran with MENU or LOST changes the frame counter only;
\* one that ran with WON leaves car, ball, strokes, game state and the
\* stroke bookkeeping alone and lets spawn scale, shake and queues decay
C6_Gated ==
    [][IsFrame =>
        /\ rendered.gameState \in {MENU, LOST}
            => UNCHANGED <<gameState, strokes, lastStrokeTime, car, ball, spawnScale,
                           shake, effects, particles, tracks, effectIdCounter>>
        /\ rendered.gameState = WON
            => /\ UNCHANGED <<gameState, strokes, lastStrokeTime, car, ball,
                              effectIdCounter>>
               /\ spawnScale' >= spawnScale /\ shake' <= shake
               /\ Len(effects') <= Len(effects)
               /\ Len(tracks') <= Len(tracks)
               /\ Len(particles') <= Len(particles)]_vars

\* a WON update has run on queues that still hold entries, shake decaying
C6_Witness ==
    /\ frame.state = WON
    /\ shake > 0 /\ shake < 10 * ONE
    /\ Len(particles) > 0 /\ Len(effects) > 0

\* C7: the trail of the ball never holds more than 15 points
C7_Trail == Len(ball.trail) <= 15

\* the trail is full and the ball still moves
C7_Witness ==
    /\ Len(ball.trail) = 15
    /\ frame.state = PLAYING /\ Hypot(ball.vel.x, ball.vel.y) > ONE

\* the lattice points of a rectangle
RectPoints(rect) ==
    { q \in { Vec(i * FnGrid, j * FnGrid) : i \in 0..MaxCellX, j \in 0..MaxCellY } :
        /\ rect.x <= q.x /\ q.x <= rect.x + rect.w
        /\ rect.y <= q.y /\ q.y <= rect.y + rect.h }

\* squared distance of two lattice points, in lattice cells
Cells2(p, q) ==
    ((p.x - q.x) \div FnGrid) * ((p.x - q.x) \div FnGrid)
        + ((p.y - q.y) \div FnGrid) * ((p.y - q.y) \div FnGrid)

\* is some point of the rectangle closer to the center than the radius
SomePointWithin(circle, rect) ==
    \E q \in RectPoints(rect) :
        Cells2(circle.pos, q) < (circle.radius \div FnGrid) * (circle.radius \div FnGrid)

\* C8: checkCircleRectCollision is true exactly when the rectangle has a
\* point at distance strictly less than the radius from the center
C8_Check ==
    fn.op = "check" => (fn.result <=> SomePointWithin(fn.circle, fn.rect))

\* a circle that touches the rectangle at exactly its radius does not collide
C8_Witness ==
    /\ fn.op = "check" /\ ~fn.result
    /\ \E q \in RectPoints(fn.rect) :
        Cells2(fn.circle.pos, q)
            = (fn.circle.radius \div FnGrid) * (fn.circle.radius \div FnGrid)

\* distance from the center to the nearest point of the rectangle
NearestDist(circle, rect) == getDistance(circle.pos, Closest(circle.pos, rect))

\* what the rounding of a resolution may lose: a hundredth of a pixel
RoundingSlack == ONE \div 100

\* C9 as stated: after a resolution the distance is at least the radius,
\* unless it was zero before, and then nothing changes
C9_Exact ==
    fn.op = "resolve"
        => IF NearestDist(fn.circle, fn.rect) = 0 THEN fn.out = fn.circle
           ELSE NearestDist(fn.out, fn.rect) >= fn.circle.radius

\* C9: after a resolution the distance is at least the radius up to
\* rounding, unless it was zero before, and then nothing changes
C9_Resolved ==
    fn.op = "resolve"
        => IF NearestDist(fn.circle, fn.rect) = 0 THEN fn.out = fn.circle
           ELSE NearestDist(fn.out, fn.rect) >= fn.circle.radius - RoundingSlack

\* an overlapping circle off the rectangle's axes has been pushed out
C9_Witness ==
    /\ fn.op = "resolve"
    /\ NearestDist(fn.circle, fn.rect) > 0
    /\ NearestDist(fn.circle, fn.rect) < fn.circle.radius
    /\ fn.out.pos.x # fn.circle.pos.x /\ fn.out.pos.y # fn.circle.pos.y
    /\ NearestDist(fn.out, fn.rect) >= fn.circle.radius - RoundingSlack

\* v . n for the contact normal n of circle against rect
AlongNormal(v, circle, rect) ==
    LET c == Closest(circle.pos, rect)
        dist == NearestDist(circle, rect)
    IN  FMul(v.x, FDiv(circle.pos.x - c.x, dist))
            + FMul(v.y, FDiv(circle.pos.y - c.y, dist))

RandomProbe == {0, 950}

\* the part of a car and a ball that is the trajectory
Trajectory(c, bl) ==
    [car |-> [pos |-> c.pos, vel |-> c.vel, angle |-> c.angle, speed |-> c.speed],
     ball |-> [pos |-> bl.pos, vel |-> bl.vel]]

\* the trajectory part of the frame that would run now with Math.random() = r
NextTrajectory(r) ==
    CHOOSE t \in { Trajectory(u.car, u.ball) :
                     u \in {PlayingUpdate(LEVELS[rendered.level], r)} } : TRUE

C12_Wrap ==
    fn.op = "generate"
        => /\ fn.idx <= LEVEL_COUNT => fn.out = CatalogIds[fn.idx]
           /\ fn.idx > LEVEL_COUNT
                => /\ fn.out = CatalogIds[fn.idx - LEVEL_COUNT]
                   /\ fn.out = generateLevel(fn.idx - LEVEL_COUNT)
                   /\ fn.out \in ModelLevels
                        => LEVELS[fn.out] = LEVELS[generateLevel(fn.idx - LEVEL_COUNT)]

\* an index of the second round has given an entry of the catalog
C12_Witness ==
    /\ fn.op = "generate" /\ fn.idx > LEVEL_COUNT
    /\ fn.out \in ModelLevels /\ LEVELS[fn.out].id = fn.idx - LEVEL_COUNT

\* a x b and a . b of two plane vectors, in pixels squared
Cross(a, c) == FMul(a.x, c.y) - FMul(a.y, c.x)
Diff(p, q) == Vec(p.x - q.x, p.y - q.y)

\* the ball was moved along the line from the car's center through its own,
\* the car not at all; d is the distance of the centers before the call
PushedAlongNormal(d) ==
    /\ fn.out.car.pos = fn.car.pos
    /\ Abs(Cross(Diff(fn.out.ball.pos, fn.car.pos), Diff(fn.ball.pos, fn.car.pos))) <= ONE
    /\ dot(Diff(fn.out.ball.pos, fn.car.pos), Diff(fn.ball.pos, fn.car.pos)) > 0
    /\ Abs(getDistance(fn.out.ball.pos, fn.ball.pos)
             - ((fn.car.radius + fn.ball.radius) - d)) <= RoundingSlack

\* C13 as stated: the call leaves the car where it is and moves the ball
\* along the normal until the centers are exactly the sum of the radii
\* apart; with coinciding centers it changes nothing and returns false
C13_Exact ==
    fn.op = "carball"
        => \A d \in {getDistance(fn.car.pos, fn.ball.pos)} :
             IF d = 0
             THEN fn.out = [car |-> fn.car, ball |-> fn.ball, hit |-> FALSE]
             ELSE /\ PushedAlongNormal(d)
                  /\ getDistance(fn.out.car.pos, fn.out.ball.pos)
                        = fn.car.radius + fn.ball.radius

\* C13: the same with the centers the sum of the radii apart up to rounding
C13_Pushed ==
    fn.op = "carball"
        => \A d \in {getDistance(fn.car.pos, fn.ball.pos)} :
             IF d = 0
             THEN fn.out = [car |-> fn.car, ball |-> fn.ball, hit |-> FALSE]
             ELSE /\ PushedAlongNormal(d)
                  /\ Abs(getDistance(fn.out.car.pos, fn.out.ball.pos)
                           - (fn.car.radius + fn.ball.radius)) <= RoundingSlack

\* a ball overlapping the car off its axes has been pushed out
C13_Witness ==
    /\ fn.op = "carball"
    /\ fn.ball.pos.x # fn.car.pos.x /\ fn.ball.pos.y # fn.car.pos.y
    /\ fn.out.ball.pos # fn.ball.pos
    /\ fn.out.car.pos = fn.car.pos
    /\ Abs(getDistance(fn.out.car.pos, fn.out.ball.pos)
             - (fn.car.radius + fn.ball.radius)) <= RoundingSlack

\* an object moved by one sub-step of its velocity
Integrate(o) ==
    [o EXCEPT !.pos = Vec(o.pos.x + TDiv(o.vel.x, SUBSTEPS),
                          o.pos.y + TDiv(o.vel.y, SUBSTEPS))]

\* is the car faster than the ball along the normal from car to ball
CarFaster(c, bl) ==
    \E d \in {getDistance(c.pos, bl.pos)} :
        /\ d # 0
        /\ \E n \in {Vec(FDiv(bl.pos.x - c.pos.x, d), FDiv(bl.pos.y - c.pos.y, d))} :
             dot(c.vel, n) > dot(bl.vel, n)

\* what one overlap of car c and ball bl looked like and what it changed
Contact(c, bl, out) ==
    [fast |-> CarFaster(c, bl),
     carKept |-> out.car = c,
     velKept |-> out.ball.vel = bl.vel,
     pushed |-> getDistance(out.car.pos, out.ball.pos) > getDistance(c.pos, bl.pos)
                   \/ getDistance(c.pos, bl.pos) = 0]

RECURSIVE Contacts(_, _, _)
\* the overlaps of car and ball met by the sub-step loop from iteration i on
Contacts(st, level, i) ==
    IF i >= SUBSTEPS \/ st.splash THEN << >>
    ELSE LET c1 == Integrate(st.car)
             b1 == Integrate(st.ball)
             here == IF checkCircleCircleCollision(c1, b1)
                     THEN << Contact(c1, b1, resolveCarBallCollision(c1, b1)) >>
                     ELSE << >>
         IN  CHOOSE res \in
                { here \o Contacts(n, level, i + 1) : n \in {SubStep(st, level)} } : TRUE

\* the overlaps of the frame that runs now
FrameContacts ==
    Contacts([car |-> CarStep(car, keys, LEVELS[rendered.level]),
              ball |-> BallStep(ball, LEVELS[rendered.level]),
              hitBall |-> FALSE, touch |-> FALSE, hitWall |-> FALSE, splash |-> FALSE,
              steps |-> 0],
             LEVELS[rendered.level], 0)

\* C14: a frame flags a ball hit exactly when some sub-step met car and ball
\* overlapping with the car faster along the normal; an overlap with the car
\* not faster pushes the ball out and leaves car and ball velocity alone; a
\* frame without the flag counts no stroke for a hit, keeps the timestamp
\* and sets no hit shake
C14_HitGate ==
    [][IsFrame /\ rendered.gameState = PLAYING
        => \A cs \in {FrameContacts} :
            /\ frame'.hitBall <=> \E i \in 1..Len(cs) : cs[i].fast
            /\ frame'.touch <=> Len(cs) > 0
            /\ \A i \in 1..Len(cs) :
                  ~cs[i].fast => cs[i].carKept /\ cs[i].velKept /\ cs[i].pushed
            /\ frame'.counted => frame'.hitBall
            /\ ~frame'.hitBall
                  => /\ strokes' = strokes + (IF frame'.splash THEN 1 ELSE 0)
                     /\ lastStrokeTime' = lastStrokeTime
                     /\ shake' = (IF frame'.won THEN 10 * ONE
                                  ELSE IF frame'.hitWall
                                       THEN Max(ShakeStep(shake), 2 * ONE)
                                       ELSE ShakeStep(shake))]_vars

\* the reversing car overlapped the ball in the last frame without being
\* faster: no hit was flagged
C14_Witness ==
    /\ frame.state = PLAYING /\ frame.touch /\ ~frame.hitBall
    /\ keys = {"brake"} /\ car.vel.x <= 0
    /\ strokes = 1

\* position p moved n times by an eighth of velocity v
Advanced(p, v, n) == Vec(p.x + n * TDiv(v.x, SUBSTEPS), p.y + n * TDiv(v.y, SUBSTEPS))

\* what a PLAYING frame does to the positions, k being the number of
\* sub-steps it is to have run: it runs k sub-steps; a car that met neither
\* ball nor wall has moved k times an eighth of its velocity, and so has
\* such a ball unless the splash has respawned it
MovedBySubSteps(k) ==
    \A c1 \in {CarStep(car, keys, LEVELS[rendered.level])} :
    \A b1 \in {BallStep(ball, LEVELS[rendered.level])} :
        /\ frame'.steps = k
        /\ car'.vel = c1.vel /\ car'.speed = c1.speed
              => car'.pos = Advanced(c1.pos, c1.vel, k)
        /\ ~frame'.touch /\ ~frame'.hitWall /\ ~frame'.splash /\ ball'.vel = b1.vel
              => ball'.pos = Advanced(b1.pos, b1.vel, k)

\* C15 as stated: every PLAYING frame runs 8 sub-steps, each adding an
\* eighth of the velocity to the position, splash or no splash
C15_Exact ==
    [][IsFrame /\ rendered.gameState = PLAYING => MovedBySubSteps(SUBSTEPS)]_vars

\* C15: a PLAYING frame without splash runs 8 sub-steps, each adding an
\* eighth of the velocity to the position; a frame with a splash ends its
\* loop with the sub-step that flagged it, after 1 to 8 sub-steps
C15_Steps ==
    [][IsFrame /\ rendered.gameState = PLAYING
        => /\ ~frame'.splash => MovedBySubSteps(SUBSTEPS)
           /\ frame'.splash => \E k \in 1..SUBSTEPS : MovedBySubSteps(k)]_vars

\* a splash in an early sub-step: the moving car has been advanced by fewer
\* than 8 sub-steps in that frame
C15_Witness ==
    /\ frame.state = PLAYING /\ frame.splash
    /\ frame.steps >= 1 /\ frame.steps < SUBSTEPS
    /\ car.vel.x > 0 /\ ball.vel = Vec(0, 0)

\* car and ball of the recorded sub-step after integration and after the
\* resolution of car against ball
AfterCarBall ==
    LET c1 == Integrate(fn.car)
        b1 == Integrate(fn.ball)
    IN  IF checkCircleCircleCollision(c1, b1) THEN resolveCarBallCollision(c1, b1)
        ELSE [car |-> c1, ball |-> b1, hit |-> FALSE]

\* the recorded sub-step is integration, then car against ball, then car
\* against the walls, then ball against the walls
RunInOrder(walls) ==
    \A cb \in {AfterCarBall} :
        /\ fn.out.car = CarWalls([car |-> cb.car, hitWall |-> FALSE], walls, 1).car
        /\ fn.out.ball = BallWalls([ball |-> cb.ball, hitWall |-> FALSE], walls, 1).ball
        /\ fn.out.hitBall = cb.hit

\* was the ball pushed by the car into wall w, short of its center entering
PushedInto(cb, w) ==
    /\ fn.out.touch
    /\ ~checkCircleRectCollision(Integrate(fn.ball), w)
    /\ checkCircleRectCollision(cb.ball, w)
    /\ NearestDist(cb.ball, w) > 0

\* C16 as stated: a sub-step without splash runs its steps in order, and a
\* ball the car pushed into a wall does not overlap that wall at its end
C16_Exact ==
    fn.op = "substep" /\ ~fn.out.splash
        => /\ RunInOrder(LEVELS[StepLevel].walls)
           /\ \A cb \in {AfterCarBall} : \A i \in 1..Len(LEVELS[StepLevel].walls) :
                PushedInto(cb, LEVELS[StepLevel].walls[i])
                    => ~checkCircleRectCollision(fn.out.ball, LEVELS[StepLevel].walls[i])

\* C16: a sub-step without splash runs its steps in order, and a ball the
\* car pushed into a wall ends the sub-step pushed out of that wall, to the
\* distance of its radius up to rounding
C16_Order ==
    fn.op = "substep" /\ ~fn.out.splash
        => /\ RunInOrder(LEVELS[StepLevel].walls)
           /\ \A cb \in {AfterCarBall} : \A i \in 1..Len(LEVELS[StepLevel].walls) :
                PushedInto(cb, LEVELS[StepLevel].walls[i])
                    => NearestDist(fn.out.ball, LEVELS[StepLevel].walls[i])
                          >= fn.ball.radius - RoundingSlack

\* the car has pushed the ball into the corner of the block, and the ball
\* has been pushed back out along the diagonal
C16_Witness ==
    /\ fn.op = "substep" /\ ~fn.out.splash
    /\ \E cb \in {AfterCarBall} : \E i \in 1..Len(LEVELS[StepLevel].walls) :
        /\ PushedInto(cb, LEVELS[StepLevel].walls[i])
        /\ fn.out.ball.pos.x # cb.ball.pos.x /\ fn.out.ball.pos.y # cb.ball.pos.y
        /\ NearestDist(fn.out.ball, LEVELS[StepLevel].walls[i])
              >= fn.ball.radius - RoundingSlack

\* does the center of the circle lie in one of the rectangles
CenterInside(circle, rects) ==
    \E i \in 1..Len(rects) : Closest(circle.pos, rects[i]) = circle.pos

\* does the circle move less than its radius in one sub-step
ShortStep(o) ==
    getDistance(Vec(0, 0), Vec(TDiv(o.vel.x, SUBSTEPS), TDiv(o.vel.y, SUBSTEPS)))
        < o.radius

\* did the circle, clear of the walls and slow at the start of the sub-step,
\* end the sub-step with its center in a wall
Entered(before, after, walls) ==
    /\ ~Some(before, walls, 1)
    /\ ShortStep(before)
    /\ CenterInside(after, walls)

\* does car or ball enter a wall in one of the sub-steps from i on
RECURSIVE Tunnels(_, _, _)
Tunnels(st, level, i) ==
    IF i >= SUBSTEPS \/ st.splash THEN FALSE
    ELSE CHOOSE res \in
            { \/ Entered(st.car, n.car, level.walls)
              \/ Entered(st.ball, n.ball, level.walls)
              \/ Tunnels(n, level, i + 1) : n \in {SubStep(st, level)} } : TRUE

\* C17: no sub-step of a frame ends with the center of the car or of the
\* ball inside a wall, when that circle began the sub-step clear of every
\* wall and moving less than its radius per sub-step
C17_NoTunnel ==
    [][IsFrame /\ rendered.gameState = PLAYING
        => ~Tunnels([car |-> CarStep(car, keys, LEVELS[rendered.level]),
                     ball |-> BallStep(ball, LEVELS[rendered.level]),
                     hitBall |-> FALSE, touch |-> FALSE, hitWall |-> FALSE,
                     splash |-> FALSE, steps |-> 0],
                    LEVELS[rendered.level], 0)]_vars

HitOutcome(counts) ==
    /\ frame.counted <=> counts
    /\ frame.dStrokes = (IF counts THEN 1 ELSE 0) + (IF frame.splash THEN 1 ELSE 0)
    /\ lastStrokeTime = (IF counts THEN frame.last + frame.gap ELSE frame.last)

\* C19 as stated: a hit counts, adding one stroke and recording the time,
\* when at least 500 ms have passed since the last counted stroke, the
\* boundary included
C19_Inclusive ==
    frame.state = PLAYING /\ frame.hitBall => HitOutcome(frame.gap >= DEBOUNCE_MS)

\* C19: a hit counts, adding one stroke and recording the time, when more
\* than 500 ms have passed since the last counted stroke; at 500 ms or less
\* it leaves counter and timestamp alone
C19_Strict ==
    frame.state = PLAYING /\ frame.hitBall => HitOutcome(frame.gap > DEBOUNCE_MS)

\* a second hit exactly 500 ms after the counted one has not been counted
C19_Witness ==
    /\ frame.state = PLAYING /\ frame.hitBall
    /\ frame.gap = DEBOUNCE_MS
    /\ ~frame.counted /\ frame.dStrokes = 0
    /\ lastStrokeTime = frame.last
    /\ strokes = 1

\* C20: a frame with a wall impact adds no stroke for it (the counter moves
\* by the counted hit and the splash of the frame only) and leaves the shake
\* at the larger of 2 and the value it had when the wall was looked at; only
\* a hole-out in the same frame then raises it to 10
C20_WallShake ==
    [][IsFrame /\ frame'.state = PLAYING /\ frame'.hitWall
        => /\ strokes' = strokes + (IF frame'.counted THEN 1 ELSE 0)
                                 + (IF frame'.splash THEN 1 ELSE 0)
           /\ frame'.counted => frame'.hitBall /\ frame'.gap > DEBOUNCE_MS
           /\ \A current \in {IF frame'.hitBall /\ Abs(car'.speed) > 5 * ONE
                              THEN 5 * ONE ELSE ShakeStep(shake)} :
                /\ shake' >= current
                /\ shake' = (IF frame'.won THEN 10 * ONE
                             ELSE IF current > 2 * ONE THEN current ELSE 2 * ONE)]_vars

\* the ball has struck a wall while the shake of the hit before was still
\* above 2: the shake has been kept, no stroke added
C20_Witness ==
    /\ frame.state = PLAYING /\ frame.hitWall
    /\ ~frame.hitBall /\ ~frame.won /\ ~frame.splash
    /\ shake > 2 * ONE
    /\ frame.dStrokes = 0

\* the cap of the frame of the recorded call: 12, or 7.2 with the car on sand
CapOf(c, level) ==
    IF CurrentSurface(c, level) = SAND THEN 7200 ELSE CAR_MAX_SPEED

\* C21: the car physics of a frame leaves the speed within [-max/2, max],
\* max being 12, or 7.2 on sand; the collisions of the frame only shrink its
\* magnitude; so the speed stays within [-6, 12]
C21_SpeedBound ==
    fn.op = "carstep"
        => \A max \in {CapOf(fn.car, LEVELS[fn.level])} :
            /\ fn.out.speed <= max /\ fn.out.speed >= -(max \div 2)
            /\ Abs(fn.hit.speed) <= Abs(fn.out.speed)
            /\ Abs(fn.wall.speed) <= Abs(fn.out.speed)
            /\ \A v \in {fn.out.speed, fn.hit.speed, fn.wall.speed} :
                  v <= 12000 /\ v >= -6000

\* the car came onto the sand in reverse faster than 3.6 with the brake held
\* and was capped at -3.6; the wall then halved its speed
C21_Witness ==
    /\ fn.op = "carstep" /\ CurrentSurface(fn.car, LEVELS[fn.level]) = SAND
    /\ fn.car.speed < -3600 /\ "brake" \in fn.keys /\ "throttle" \notin fn.keys
    /\ fn.out.speed = -3600
    /\ fn.wall.speed = -1800

\* a frame of the rolling car that met neither ball nor wall
FreeRoll ==
    /\ IsFrame /\ keys = {} /\ rendered.gameState = PLAYING
    /\ ~frame'.touch /\ ~frame'.hitWall
    /\ \A c1 \in {CarStep(car, keys, LEVELS[rendered.level])} :
          car'.pos = Advanced(c1.pos, c1.vel, SUBSTEPS)

\* C22: with no key held and no collision, on grass, sand and water, a
\* speed other than 0 shrinks in magnitude in every frame, becomes 0 in the
\* frame that brings it below 0.05, and once 0 stays 0; so the car's speed
\* is 0 from some frame on
C22_Coasting ==
    /\ [][FreeRoll
            => \A drag \in {SURFACE_PROPS[CurrentSurface(car, LEVELS[rendered.level])].drag} :
                /\ car.speed # 0 => Abs(car'.speed) < Abs(car.speed)
                /\ car.speed = 0 => car'.speed = 0
                /\ Abs(FMul(car.speed, ONE - drag)) < 50 => car'.speed = 0]_vars
    /\ <>[](car.speed = 0)

\* the car has rolled out of the water onto the grass and come to rest
\* there, well before the frames run out
C22_Witness ==
    /\ rendered.level = 27 /\ keys = {}
    /\ car.speed = 0 /\ car.pos.x > 450 * ONE
    /\ timeRef > 50 /\ timeRef < MaxCoastFrames
    /\ ~frame.touch /\ ~frame.hitWall

\* C23: a PLAYING frame without splash appends the ball's position to the
\* trail when the ball is faster than 1, dropping the oldest point of a
\* trail of 15; otherwise it removes the oldest point of a trail that has
\* one, and that point only
C23_TrailFade ==
    [][IsFrame /\ frame'.state = PLAYING /\ ~frame'.splash
        => \A after \in {ball'} :
            IF Hypot(after.vel.x, after.vel.y) > ONE
            THEN /\ Len(after.trail) = Min(Len(ball.trail) + 1, 15)
                 /\ after.trail[Len(after.trail)] = after.pos
                 /\ \A i \in 1..(Len(after.trail) - 1) :
                       after.trail[i] = ball.trail[i + Len(ball.trail) + 1 - Len(after.trail)]
            ELSE /\ Len(after.trail) = Max(Len(ball.trail) - 1, 0)
                 /\ \A i \in 1..Len(after.trail) : after.trail[i] = ball.trail[i + 1]]_vars

\* the ball, pressed to the wall by the car, has slowed to 1 or less and
\* its trail is fading: the frame took a point away and points are left
C23_Witness ==
    /\ frame.state = PLAYING /\ ~frame.splash /\ frame.touch
    /\ Hypot(ball.vel.x, ball.vel.y) <= ONE
    /\ Len(ball.trail) > 1 /\ Len(ball.trail) < 15

\* every entity of the queue has life left
AllAlive(q) == \A i \in 1..Len(q) : q[i].life > 0

\* the life entity e of a queue loses in one update
Loss(e, fixed) == IF fixed = 0 THEN e.decay ELSE fixed

\* after is before with every entity aged by one update and those whose
\* life has run out taken away, the others in their order
Aged(before, after, fixed) ==
    \A keep \in {{i \in 1..Len(before) : before[i].life - Loss(before[i], fixed) > 0}} :
        /\ Len(after) = Cardinality(keep)
        /\ \A i \in keep :
              after[Cardinality({j \in keep : j <= i})]
                  = [before[i] EXCEPT !.life = @ - Loss(before[i], fixed)]

OnTheTee(c, bl, level) ==
    /\ c.pos = level.startPos /\ c.vel = Vec(0, 0) /\ c.speed = 0 /\ c.angle = 0
    /\ 2 * c.radius = c.width
    /\ bl.pos = Vec(level.startPos.x + 60 * ONE, level.startPos.y)
    /\ bl.vel = Vec(0, 0) /\ bl.trail = << >>

\* C25: while the menu is up the simulation is in its reset state: car and
\* ball on the tee of the current level, queues empty, shake and spawn
\* scale 0, no strokes
C25_MenuReset ==
    rendered.gameState = MENU
        => /\ OnTheTee(car, ball, LEVELS[rendered.level])
           /\ effects = << >> /\ particles = << >> /\ tracks = << >>
           /\ shake = 0 /\ spawnScale = 0
           /\ strokes = 0 /\ rendered.strokes = 0

\* back in the menu after a hole was played to its end
C25_Witness ==
    /\ rendered.gameState = MENU /\ gameState = MENU
    /\ frame.state \in {PLAYING, WON}
    /\ lastStrokeTime > 0
    /\ OnTheTee(car, ball, LEVELS[rendered.level])
    /\ strokes = 0 /\ particles = << >>

\* C26: the commit that shows PLAYING after the menu, after the level
\* selection or after NEXT HOLE on the WON screen leaves car and ball on the
\* tee of the level now played, wherever they were; and nothing but a frame
\* or such a commit moves them, so the first physics frame starts there
C26_StartOfHole ==
    [][/\ rendered'.gameState = PLAYING /\ rendered.gameState # PLAYING
            => OnTheTee(car', ball', LEVELS[rendered'.level])
       /\ ~IsFrame /\ rendered' = rendered => car' = car /\ ball' = ball]_vars

\* NEXT HOLE on the WON screen of level 29: play is on level 30 and car and
\* ball, last seen at the hole of level 29, stand on its tee
C26_Witness ==
    /\ rendered.gameState = PLAYING /\ rendered.level = 30
    /\ frame.state \in {PLAYING, WON} /\ timeRef > 30
    /\ lastStrokeTime > 0
    /\ OnTheTee(car, ball, LEVELS[30])

\* C27: one callback is queued or being served at any time, and it is the
\* loop of the latest run of the loop effect; every tick served has run one
\* update and one draw, so the frame counter and the draws equal the ticks
C27_OneLoop ==
    fn.op = "loop"
        => /\ Cardinality(fn.pending \cup fn.due) = 1
           /\ \A c \in fn.pending \cup fn.due : c.gen = fn.gen /\ c.gs = rendered.gameState
           /\ fn.draws = timeRef
           /\ timeRef = (IF fn.due = {} THEN fn.ticks ELSE fn.ticks - 1)

\* the loop was replaced at the commit of PLAYING after some ticks of the
\* menu, and ticks of the new loop have been served
C27_Witness ==
    /\ fn.op = "loop" /\ fn.gen = 1 /\ fn.due = {}
    /\ rendered.gameState = PLAYING /\ frame.state = PLAYING
    /\ fn.ticks > 5 /\ timeRef = fn.ticks /\ fn.draws = fn.ticks
    /\ spawnScale > 0 /\ spawnScale < ONE

\* the level cells name one hole of the catalog
LevelInCatalog ==
    /\ levelIndex \in 1..LEVEL_COUNT
    /\ currentLevel \in DOMAIN LEVELS
    /\ LEVELS[currentLevel].id = levelIndex
    /\ CatalogIds[levelIndex] = currentLevel

\* a click on the victory screen that changes what App holds
VictoryClick ==
    /\ rendered.gameState = WON /\ rendered' = rendered
    /\ <<gameState, strokes, levelIndex, currentLevel, showLevelSelect>>'
         # <<gameState, strokes, levelIndex, currentLevel, showLevelSelect>>

\* C28: whatever the player clicks, levelIndex stays within 1..30 and the
\* current level is the catalog entry whose id is levelIndex; a click on the
\* victory screen that starts a hole starts hole levelIndex + 1 with no
\* strokes, which happens below hole 30 only; on hole 30 every click there
\* leads to the menu with no strokes and hole 30 still current
C28_Progression ==
    /\ []LevelInCatalog
    /\ [][VictoryClick /\ gameState' = PLAYING
            => /\ rendered.levelIndex < LEVEL_COUNT
               /\ levelIndex' = rendered.levelIndex + 1
               /\ LEVELS[currentLevel'].id = rendered.levelIndex + 1
               /\ strokes' = 0]_vars
    /\ [][VictoryClick /\ rendered.levelIndex = LEVEL_COUNT
            => /\ gameState' = MENU /\ strokes' = 0
               /\ levelIndex' = LEVEL_COUNT
               /\ LEVELS[currentLevel'].id = LEVEL_COUNT]_vars

\* the last hole was won with strokes counted and NEXT HOLE (or MENU) was
\* clicked: the menu is requested, hole 30 is still the current one
C28_Witness ==
    /\ rendered.gameState = WON /\ rendered.levelIndex = LEVEL_COUNT
    /\ rendered.strokes = MaxHostStrokes
    /\ gameState = MENU /\ strokes = 0
    /\ levelIndex = LEVEL_COUNT /\ currentLevel = LEVEL_COUNT
    /\ car.pos = LEVELS[LEVEL_COUNT].startPos

\* a step that starts over: a click on START ENGINE, on a level button, on
\* NEXT HOLE or on MENU, or a commit whose effect runs the hook's resetGame
StartsOver ==
    \/ /\ rendered' = rendered
       /\ rendered.gameState \in {MENU, WON}
       /\ gameState' \in {MENU, PLAYING}
       /\ <<car, ball, effects, particles, tracks>>' = <<car, ball, effects, particles, tracks>>
    \/ /\ rendered' # rendered
       /\ car' = NewCar(LEVELS[currentLevel])
       /\ ball' = NewBall(LEVELS[currentLevel])
       /\ effects' = << >> /\ particles' = << >> /\ tracks' = << >>

\* C29: a frame of update changes the stroke counter by 0, 1 or 2, one for
\* a counted hit plus one for a splash; the counter is never negative, and a
\* step that lowers it is no frame but a start over, which sets it to 0
C29_Strokes ==
    /\ [](strokes >= 0)
    /\ [][IsFrame
            => /\ strokes' - strokes \in {0, 1, 2}
               /\ strokes' - strokes = (IF frame'.counted THEN 1 ELSE 0)
                                         + (IF frame'.splash THEN 1 ELSE 0)]_vars
    /\ [][strokes' < strokes => ~IsFrame /\ strokes' = 0 /\ StartsOver]_vars

\* a frame in which the car hits the ball, outside the window of the last
\* counted hit, and the ball splashes: two strokes at once
C29_Witness ==
    /\ frame.state = PLAYING /\ frame.counted /\ frame.splash
    /\ frame.gap > DEBOUNCE_MS
    /\ strokes = 3 /\ rendered.strokes = 1

\* C30: only a counted hit writes the time of the last counted stroke: no
\* click, no commit with its resets and no frame without a counted hit (a
\* splash included) changes it; so a hit at most 500 ms after the last
\* counted one is flagged but adds no stroke, on a new hole as on the old
C30_Carry ==
    /\ [][~IsFrame => lastStrokeTime' = lastStrokeTime]_vars
    /\ [][IsFrame /\ ~frame'.counted => lastStrokeTime' = lastStrokeTime]_vars
    /\ [][IsFrame /\ frame'.hitBall /\ now - lastStrokeTime <= DEBOUNCE_MS
            => /\ ~frame'.counted
               /\ strokes' = strokes + (IF frame'.splash THEN 1 ELSE 0)
               /\ lastStrokeTime' = lastStrokeTime]_vars

\* hole 30 entered through NEXT HOLE: the car has driven off the tee and
\* hit the ball inside the window of the hit that won hole 29; the hit is
\* flagged, the ball is under way, and the counter still shows 0
C30_Witness ==
    /\ rendered.gameState = PLAYING /\ rendered.level = CarryLevel + 1
    /\ frame.state = PLAYING /\ frame.hitBall /\ ~frame.counted
    /\ frame.gap < DEBOUNCE_MS /\ frame.last = StartTime
    /\ lastStrokeTime = StartTime
    /\ car.pos.y = LEVELS[CarryLevel + 1].startPos.y
    /\ car.pos.x > LEVELS[CarryLevel + 1].startPos.x
    /\ ball.pos.x > BallStart(LEVELS[CarryLevel + 1]).x
    /\ strokes = 0
====
